---- MODULE Spec2Model ----
(***************************************************************************)
(* A model of @metreeca/type: the memoizing guard resolver (cache.ts), the *)
(* guard factories and combinators and the is/as assertions (index.ts).    *)
(*                                                                         *)
(* JavaScript values are tagged tuples <<tag, payload>>.  Objects are      *)
(* either anonymous literals <<"obj", descriptor>> or references           *)
(* <<"ref", id>> into the heap, where identity, extensibility, freezing    *)
(* and the Guarded brand live.  Functions are terms: <<"fn0", name>> is a  *)
(* function declaring no parameter (function.length = 0), every other      *)
(* guard term declares one.                                                *)
(***************************************************************************)
EXTENDS Integers, Sequences, FiniteSets, TLC

VARIABLES
    cache,  \* the WeakMap of cache.ts: zero-parameter function name -> entry
    log,    \* the zero-parameter functions materialize has invoked, in order
    rets,   \* what materialize has returned: <<key, reference, nested>>
    heap,   \* object id -> object (descriptor, extensible, frozen, brand)
    last    \* the observation left by the last completed top-level call

vars == <<cache, log, rets, heap, last>>

(***************************************************************************)
(* Bounds of the model.                                                    *)
(***************************************************************************)
MaxNodes == 5     \* nodes of the nested arrays handed to the tree guard
MaxChain == 3     \* links of the ping/pong chains
MaxCalls == 3     \* invocations of one factory that are told apart
MaxObjects == 3   \* objects the heap can hold

(***************************************************************************)
(* Values.                                                                 *)
(***************************************************************************)
Null == <<"null", "null">>
Undefined == <<"undefined", "undefined">>
True == <<"boolean", "true">>
False == <<"boolean", "false">>
Num(s) == <<"number", s>>
Str(s) == <<"string", s>>
Sym == <<"symbol", "Symbol()">>
Fn == <<"function", "function f() {}">>
Ref(o) == <<"ref", o>>

IndexKeys(n) == [i \in 1..n |-> ToString(i - 1)]

Arr(elems) ==
    <<"obj", [kind |-> "array", keys |-> IndexKeys(Len(elems)), vals |-> elems]>>

Rec(keys, vals) ==
    <<"obj", [kind |-> "record", keys |-> keys, vals |-> vals]>>

\* Object.create(null) with the given own properties
NullProto(keys, vals) ==
    <<"obj", [kind |-> "nullproto", keys |-> keys, vals |-> vals]>>

\* new (class {})() with the given own properties
Instance(keys, vals) ==
    <<"obj", [kind |-> "instance", keys |-> keys, vals |-> vals]>>

IsStructural(v) == v[1] \in {"obj", "ref"}

\* the descriptor (kind, own enumerable string keys, their values) of an object
Desc(h, v) == IF v[1] = "ref" THEN h[v[2]] ELSE v[2]

\* typeof v
TypeOf(v) ==
    IF v[1] \in {"null", "obj", "ref"} THEN "object" ELSE v[1]

\* Array.isArray(v)
IsArray(h, v) == IsStructural(v) /\ Desc(h, v).kind = "array"

\* a faulty type(): null and arrays are left to typeof
TypeByTypeof(h, v) == TypeOf(v)

type(h, v) ==
    IF v = Null THEN "null"
    ELSE IF v = Undefined THEN "undefined"
    ELSE IF IsArray(h, v) THEN "array"
    ELSE TypeOf(v)

\* position of key among the own keys of d, 0 when absent
KeyIndex(d, key) ==
    IF \E i \in 1..Len(d.keys) : d.keys[i] = key
    THEN CHOOSE i \in 1..Len(d.keys) : d.keys[i] = key
    ELSE 0

\* v[key] on an object: own property or undefined
Get(h, v, key) ==
    LET d == Desc(h, v)
        i == KeyIndex(d, key)
    IN IF i = 0 THEN Undefined ELSE d.vals[i]

\* the keys a for-in loop visits: integer-like keys ascending, then the
\* other string keys in insertion order
IndexLike == {ToString(i) : i \in 0..9}

IndexOf(k) == CHOOSE i \in 0..9 : ToString(i) = k

ForInKeys(keys) ==
    LET idx == {IndexOf(keys[j]) : j \in {j \in 1..Len(keys) : keys[j] \in IndexLike}}
        n == Cardinality(idx)
        asc == CHOOSE f \in [1..n -> idx] : \A a, b \in 1..n : a < b => f[a] < f[b]
    IN [j \in 1..n |-> ToString(asc[j])]
       \o SelectSeq(keys, LAMBDA k : k \notin IndexLike)

(***************************************************************************)
(* Outcomes of calls: a returned value or a thrown failure, together with  *)
(* the resolver state the call leaves behind.                              *)
(***************************************************************************)
Ret(s) == <<"ret", s>>
Throw(t, m) == <<"throw", t, m>>
IsThrow(x) == x[1] = "throw"
R(out, st) == [out |-> out, st |-> st]

NotAFunction == Throw("TypeError", "guard is not a function")
StackOverflow == Throw("RangeError", "Maximum call stack size exceeded")

\* `${v}`: the string conversion of a template literal
RECURSIVE ToStr(_, _, _)
ToStr(h, v, seen) ==
    IF v[1] = "symbol"
    THEN Throw("TypeError", "Cannot convert a Symbol value to a string")
    ELSE IF ~IsStructural(v) THEN Ret(v[2])
    ELSE LET d == Desc(h, v) IN
         IF d.kind = "nullproto"
         THEN Throw("TypeError", "Cannot convert object to primitive value")
         ELSE IF d.kind # "array" THEN Ret("[object Object]")
         ELSE IF v \in seen THEN Ret("")
         ELSE LET Join[i \in 0..Len(d.vals)] ==
                      IF i = 0 THEN Ret("")
                      ELSE LET e == d.vals[i]
                               head == Join[i - 1]
                               item == IF e \in {Null, Undefined} THEN Ret("")
                                       ELSE ToStr(h, e, seen \cup {v})
                           IN IF IsThrow(head) THEN head
                              ELSE IF IsThrow(item) THEN item
                              ELSE Ret(head[2] \o (IF i > 1 THEN "," ELSE "") \o item[2])
              IN Join[Len(d.vals)]

(***************************************************************************)
(* Functions.  Names of the functions that declare no parameter: the guard *)
(* factories of index.ts, the factories of the tests and of the README,    *)
(* and the two guards of index.ts that declare no parameter themselves.    *)
(***************************************************************************)
PrimFactories == {"aNull", "aBoolean", "aNumber", "aString", "aFunction"}

Names ==
    PrimFactories \cup
    {"anUnknown",       \* index.ts: the factory
     "unknown",         \* index.ts: the guard () => "" it returns
     "allEmpty",        \* index.ts: the guard () => "" that all([]) returns
     "aTree", "aPing", "aPong",  \* cache.test.ts
     "aNode",           \* README.md, Recursive Definitions
     "aShape", "aCircle", "aComposite",  \* README.md, Mutually Recursive Types
     "aBroken",         \* a factory that throws while it builds its guard
     "aProbe"}          \* a factory that calls its own deferred guard

F0(name) == <<"fn0", name>>
Thunk(key) == <<"thunk", key>>
Made(name, n, g) == <<"made", name, n, g>>

PrimType(name) ==
    CASE name = "aNull" -> "null"
      [] name = "aBoolean" -> "boolean"
      [] name = "aNumber" -> "number"
      [] name = "aString" -> "string"
      [] name = "aFunction" -> "function"

\* the closure behind a reference handed out by a factory
Body(g) == IF g[1] = "made" THEN g[4] ELSE g

\* function.length
Arity(g) == IF Body(g)[1] = "fn0" THEN 0 ELSE 1

\* the WeakMap key of a function that declares no parameter
Key(g) == Body(g)[2]

IsFunction(g) ==
    g[1] \in {"fn0", "made", "thunk", "prim", "array", "object", "entry",
              "schema", "constant", "all", "any", "user"}

\* JavaScript truthiness of what a cache entry or a diagnostic may be
Truthy(x) == x \notin {Undefined, Null, False, Str("")}

(***************************************************************************)
(* The primitive guards (index.ts).                                        *)
(***************************************************************************)
Illegal(h, v, expected) ==
    "illegal <" \o type(h, v) \o "> value, expected <" \o expected \o ">"

\* the guards returned by aNull, aBoolean, aNumber, aString and aFunction
PrimGuard(t, h, v) ==
    IF (IF t = "null" THEN v = Null ELSE TypeOf(v) = t)
    THEN ""
    ELSE Illegal(h, v, t)

\* isObject of anObject: a plain record
IsObject(h, v) ==
    /\ v # Null
    /\ TypeOf(v) = "object"
    /\ Desc(h, v).kind = "record"

\* the guard returned by anObject()
ObjectGuard(h, v) ==
    IF IsObject(h, v) THEN "" ELSE Illegal(h, v, "object")

(***************************************************************************)
(* The resolver (cache.ts) and the evaluation of guards.  st is the state   *)
(* of the resolver: the cache, the histories log and rets, and open, the   *)
(* functions materialize is invoking; d is the set of the calls <<g, v>> on    *)
(* objects of the heap that are running: a guard that is called again on   *)
(* the object it is checking recurses until the stack overflows.           *)
(***************************************************************************)
RECURSIVE Call(_, _, _, _, _)
RECURSIVE resolve(_, _, _)
RECURSIVE materialize(_, _, _)
RECURSIVE Invoke(_, _, _)
RECURSIVE ArrayLoop(_, _, _, _, _, _)
RECURSIVE EntryLoop(_, _, _, _, _, _, _, _)
RECURSIVE SchemaLoop(_, _, _, _, _, _)
RECURSIVE ExtraLoop(_, _, _, _, _, _, _, _)
RECURSIVE AllLoop(_, _, _, _, _, _)
RECURSIVE AnyLoop(_, _, _, _, _, _)
RECURSIVE AnyEntries(_, _, _, _)
RECURSIVE TreeLoop(_, _, _, _, _, _)
RECURSIVE ResolveAll(_, _, _, _)
RECURSIVE SchemaEntries(_, _, _, _)

\* resolve(source) of cache.ts
resolve(source, h, st) ==
    IF source = Undefined THEN R(Undefined, st)
    ELSE IF ~IsFunction(source) THEN R(source, st)
    ELSE IF Arity(source) > 0 THEN R(source, st)
    ELSE materialize(source, h, st)

\* the history of materialize: it returned out for key, nested when the
\* call was made while the function of key was itself being invoked
Returned(st, key, out) ==
    [st EXCEPT !.rets = @ \cup {<<key, out, key \in st.open>>}]

\* a faulty end of materialize: the entry is not rebound to the guard
materializedKeepingThunk(r, key, st) ==
    IF IsThrow(r.out) THEN R(r.out, [r.st EXCEPT !.open = st.open])
    ELSE R(r.out, Returned([r.st EXCEPT !.open = st.open], key, r.out))

\* a faulty end of materialize: the entry is removed instead of rebound
materializedForgetting(r, key, st) ==
    IF IsThrow(r.out) THEN R(r.out, [r.st EXCEPT !.open = st.open])
    ELSE R(r.out, Returned([r.st EXCEPT !.cache[key] = Undefined, !.open = st.open],
                           key, r.out))

\* a faulty end of materialize: the entry of a factory that threw is
\* removed, so that the factory is tried again
materializedCleaning(r, key, st) ==
    IF IsThrow(r.out)
    THEN R(r.out, [r.st EXCEPT !.cache[key] = Undefined, !.open = st.open])
    ELSE R(r.out, Returned([r.st EXCEPT !.cache[key] = r.out, !.open = st.open],
                           key, r.out))

\* the end of materialize, r being what factory() produced: the entry of
\* key is rebound to the guard, which is returned
materialized(r, key, st) ==
    IF IsThrow(r.out) THEN R(r.out, [r.st EXCEPT !.open = st.open])
    ELSE R(r.out, Returned([r.st EXCEPT !.cache[key] = r.out, !.open = st.open],
                           key, r.out))

\* the state in which factory() runs: the entry of key holds the thunk
Building(st, key) ==
    [st EXCEPT !.cache[key] = Thunk(key), !.open = @ \cup {key}]

\* a faulty materialize: a finished entry is built again
materializeForgetful(factory, h, st) ==
    IF st.cache[Key(factory)] # Thunk(Key(factory))
    THEN materialized(Invoke(factory, h, Building(st, Key(factory))), Key(factory), st)
    ELSE R(st.cache[Key(factory)], Returned(st, Key(factory), st.cache[Key(factory)]))

\* a faulty materialize: a factory under construction is not given its
\* deferred guard but a guard that accepts every value
materializeWithoutDeferral(factory, h, st) ==
    IF st.cache[Key(factory)] = Undefined
    THEN materialized(Invoke(factory, h, Building(st, Key(factory))), Key(factory), st)
    ELSE IF st.cache[Key(factory)] = Thunk(Key(factory))
    THEN R(<<"array", Undefined>>, Returned(st, Key(factory), <<"array", Undefined>>))
    ELSE R(st.cache[Key(factory)], Returned(st, Key(factory), st.cache[Key(factory)]))

\* materialize(factory) of cache.ts
materialize(factory, h, st) ==
    IF st.cache[Key(factory)] = Undefined
    THEN materialized(Invoke(factory, h, Building(st, Key(factory))), Key(factory), st)
    ELSE R(st.cache[Key(factory)], Returned(st, Key(factory), st.cache[Key(factory)]))

\* a faulty thunk: it calls whatever the cache holds, itself included
ThunkGuardRecursing(key, h, v, st, d) ==
    IF st.cache[key] = Thunk(key) THEN R(StackOverflow, st)
    ELSE IF Truthy(st.cache[key]) THEN Call(st.cache[key], h, v, st, d)
    ELSE R(Ret(""), st)

\* a faulty thunk: it keeps the entry it was installed with, itself, and
\* accepts every value for ever
ThunkGuardSnapshot(key, h, v, st, d) == R(Ret(""), st)

\* the guard of the thunk of materialize, called on v
ThunkGuard(key, h, v, st, d) ==
    IF Truthy(st.cache[key]) /\ st.cache[key] # Thunk(key)
    THEN Call(st.cache[key], h, v, st, d)
    ELSE R(Ret(""), st)

\* a thrown failure propagates; a diagnostic is returned behind the prefix
Reported(prefix, r) ==
    IF IsThrow(r.out) THEN r ELSE R(Ret(prefix \o r.out[2]), r.st)

\* the call r has returned without a diagnostic
Passed(r) == r.out = Ret("")

\* a faulty loop body: the remaining elements are checked before the
\* failure of this one is reported
ArrayStepCheckingAll(r, guard, h, v, index, d) ==
    IF Passed(r) THEN ArrayLoop(guard, h, v, index + 1, r.st, d)
    ELSE Reported("[" \o ToString(index) \o "]: ",
                  R(r.out, ArrayLoop(guard, h, v, index + 1, r.st, d).st))

\* the body of the loop of anArray's guard, r being guard(v[index])
ArrayStep(r, guard, h, v, index, d) ==
    IF Passed(r) THEN ArrayLoop(guard, h, v, index + 1, r.st, d)
    ELSE Reported("[" \o ToString(index) \o "]: ", r)

\* the loop of the guard returned by anArray(element)
ArrayLoop(guard, h, v, index, st, d) ==
    IF index >= Len(Desc(h, v).vals) THEN R(Ret(""), st)
    ELSE ArrayStep(Call(guard, h, Desc(h, v).vals[index + 1], st, d),
                   guard, h, v, index, d)

\* the guard returned by anArray(element)
ArrayGuard(guard, h, v, st, d) ==
    IF ~IsArray(h, v) THEN R(Ret(Illegal(h, v, "array")), st)
    ELSE IF guard = Undefined THEN R(Ret(""), st)
    ELSE ArrayLoop(guard, h, v, 0, st, d)

\* the end of the body of anObject(key, value)'s loop, w being valueGuard(v[key])
EntryValueStep(w, keyGuard, valueGuard, h, v, keys, i, d) ==
    IF Passed(w) THEN EntryLoop(keyGuard, valueGuard, h, v, keys, i + 1, w.st, d)
    ELSE Reported(keys[i] \o ": ", w)

\* the body of anObject(key, value)'s loop, k being keyGuard(key)
EntryKeyStep(k, keyGuard, valueGuard, h, v, keys, i, d) ==
    IF Passed(k)
    THEN EntryValueStep(Call(valueGuard, h, Get(h, v, keys[i]), k.st, d),
                        keyGuard, valueGuard, h, v, keys, i, d)
    ELSE Reported(keys[i] \o ": ", k)

\* the loop of the guard returned by anObject(key, value), over keys[i..]
EntryLoop(keyGuard, valueGuard, h, v, keys, i, st, d) ==
    IF i > Len(keys) THEN R(Ret(""), st)
    ELSE EntryKeyStep(Call(keyGuard, h, Str(keys[i]), st, d),
                      keyGuard, valueGuard, h, v, keys, i, d)

\* a faulty guard: the keys are visited in the order they were inserted
EntryGuardAsInserted(keyGuard, valueGuard, h, v, st, d) ==
    IF ~IsObject(h, v) THEN R(Ret(Illegal(h, v, "object")), st)
    ELSE EntryLoop(keyGuard, valueGuard, h, v, Desc(h, v).keys, 1, st, d)

\* the guard returned by anObject(key, value)
EntryGuard(keyGuard, valueGuard, h, v, st, d) ==
    IF ~IsObject(h, v) THEN R(Ret(Illegal(h, v, "object")), st)
    ELSE EntryLoop(keyGuard, valueGuard, h, v, ForInKeys(Desc(h, v).keys), 1, st, d)

\* the diagnostic of constant(expected), actual being `${v}`
Unexpected(actual, expected) ==
    IF IsThrow(actual) THEN actual
    ELSE Ret("unexpected <" \o actual[2] \o "> value, expected <"
             \o expected[2] \o ">")

\* the guard returned by constant(expected) of anObject's schema
ConstantGuard(expected, h, v) ==
    IF v = expected THEN Ret("") ELSE Unexpected(ToStr(h, v, {}), expected)

\* the body of the first loop of the schema guard, r being guard(v[key])
SchemaStep(r, guards, h, v, i, d) ==
    IF Passed(r) THEN SchemaLoop(guards, h, v, i + 1, r.st, d)
    ELSE Reported(guards[i][1] \o ": ", r)

\* the first loop of the schema guard: the declared entries guards[i..]
SchemaLoop(guards, h, v, i, st, d) ==
    IF i > Len(guards) THEN R(Ret(""), st)
    ELSE SchemaStep(Call(guards[i][2], h, Get(h, v, guards[i][1]), st, d),
                    guards, h, v, i, d)

\* the body of the second loop of the schema guard, r being extra(v[key])
ExtraStep(r, declared, extra, h, v, keys, i, d) ==
    IF Passed(r) THEN ExtraLoop(declared, extra, h, v, keys, i + 1, r.st, d)
    ELSE Reported(keys[i] \o ": ", r)

\* the second loop of the schema guard: the keys of the value, keys[i..]
ExtraLoop(declared, extra, h, v, keys, i, st, d) ==
    IF i > Len(keys) THEN R(Ret(""), st)
    ELSE IF keys[i] \in declared
    THEN ExtraLoop(declared, extra, h, v, keys, i + 1, st, d)
    ELSE IF extra = Undefined
    THEN R(Ret(keys[i] \o ": unexpected property"), st)
    ELSE ExtraStep(Call(extra, h, Get(h, v, keys[i]), st, d),
                   declared, extra, h, v, keys, i, d)

\* a faulty schema guard: the keys of the value are checked first
SchemaRestFirst(first, guards, extra, h, v, d) ==
    IF ~Passed(ExtraLoop({guards[i][1] : i \in 1..Len(guards)}, extra, h, v,
                         ForInKeys(Desc(h, v).keys), 1, first.st, d))
    THEN ExtraLoop({guards[i][1] : i \in 1..Len(guards)}, extra, h, v,
                   ForInKeys(Desc(h, v).keys), 1, first.st, d)
    ELSE first

\* the schema guard after its first loop, first being what the loop produced
SchemaRest(first, guards, extra, h, v, d) ==
    IF ~Passed(first) THEN first
    ELSE ExtraLoop({guards[i][1] : i \in 1..Len(guards)}, extra, h, v,
                   ForInKeys(Desc(h, v).keys), 1, first.st, d)

\* the guard returned by schema(arg, rest) of anObject
SchemaGuard(guards, extra, h, v, st, d) ==
    IF ~IsObject(h, v) THEN R(Ret(Illegal(h, v, "object")), st)
    ELSE SchemaRest(SchemaLoop(guards, h, v, 1, st, d), guards, extra, h, v, d)

\* the body of the loop of all's guard, r being guards[i](v)
AllStep(r, guards, h, v, i, d) ==
    IF Passed(r) THEN AllLoop(guards, h, v, i + 1, r.st, d) ELSE r

\* the loop of the guard returned by all(sources), three sources or more
AllLoop(guards, h, v, i, st, d) ==
    IF i > Len(guards) THEN R(Ret(""), st)
    ELSE AllStep(Call(guards[i], h, v, st, d), guards, h, v, i, d)

\* first(v) || second(v) of the guard all returns for two sources
AllPair(first, second, h, v, d) ==
    IF Passed(first) THEN Call(second, h, v, first.st, d) ELSE first

\* a faulty guard: the guards are evaluated from the last one to the first
AllGuardFromLast(guards, h, v, st, d) ==
    AllLoop([i \in 1..Len(guards) |-> guards[Len(guards) + 1 - i]], h, v, 1, st, d)

\* the guards returned by all(sources), one source or more
AllGuard(guards, h, v, st, d) ==
    IF Len(guards) = 1 THEN Call(guards[1], h, v, st, d)
    ELSE IF Len(guards) = 2
    THEN AllPair(Call(guards[1], h, v, st, d), guards[2], h, v, d)
    ELSE AllLoop(guards, h, v, 1, st, d)

(***************************************************************************)
(* The guard of any(sources) and its diagnostic (index.ts).                *)
(***************************************************************************)
\* the uppercase letters, \p{Lu} for the names in use
Upper ==
    {"A", "B", "C", "D", "E", "F", "G", "H", "I", "J", "K", "L", "M",
     "N", "O", "P", "Q", "R", "S", "T", "U", "V", "W", "X", "Y", "Z"}

\* the character of name at position i, "" past its end
CharAt(name, i) == IF i <= Len(name) THEN SubSeq(name, i, i) ELSE ""

\* name.replace(/^an?(?=\p{Lu})/u, "")
Stripped(name) ==
    IF CharAt(name, 1) = "a" /\ CharAt(name, 2) = "n" /\ CharAt(name, 3) \in Upper
    THEN SubSeq(name, 3, Len(name))
    ELSE IF CharAt(name, 1) = "a" /\ CharAt(name, 2) \in Upper
    THEN SubSeq(name, 2, Len(name))
    ELSE name

\* the own keys of types
TypeNames == {"Null", "Boolean", "Number", "String", "Function"}

\* key.toLowerCase() for the keys of types
LowerCase(key) ==
    CASE key = "Null" -> "null"
      [] key = "Boolean" -> "boolean"
      [] key = "Number" -> "number"
      [] key = "String" -> "string"
      [] key = "Function" -> "function"

\* the members types inherits from Object.prototype: types is an ordinary
\* object and types[key] finds them
Inherited ==
    {"constructor", "toString", "toLocaleString", "valueOf", "hasOwnProperty",
     "isPrototypeOf", "propertyIsEnumerable"}

\* the string conversion of the inherited member types[key]
InheritedToString(key) ==
    "function " \o (IF key = "constructor" THEN "Object" ELSE key)
    \o "() { [native code] }"

\* types[key] ?? key
TypesOr(key) ==
    IF key \in TypeNames THEN LowerCase(key)
    ELSE IF key \in Inherited THEN InheritedToString(key)
    ELSE key

\* a faulty label: the article is kept
labelKeepingArticle(name) == TypesOr(name)

\* label(name) of any
label(name) == TypesOr(Stripped(name))

\* entries.map(([name]) => `<${label(name)}>`)
names(entries) ==
    [i \in 1..Len(entries) |-> "<" \o label(entries[i][1]) \o ">"]

\* list.join(", ")
RECURSIVE Joined(_)
Joined(list) ==
    IF Len(list) = 0 THEN ""
    ELSE IF Len(list) = 1 THEN list[1]
    ELSE list[1] \o ", " \o Joined(Tail(list))

\* expected of any
expected(entries) ==
    IF Len(entries) = 1 THEN names(entries)[1]
    ELSE IF Len(entries) = 0 THEN " or undefined"
    ELSE Joined(SubSeq(names(entries), 1, Len(entries) - 1))
         \o " or " \o names(entries)[Len(entries)]

\* error(v) of any
error(entries, h, v) ==
    "unexpected <" \o type(h, v) \o "> value, expected " \o expected(entries)

\* guard(v) === "" ? "" : error(v), r being guard(v)
AnyLast(r, entries, h, v) ==
    IF IsThrow(r.out) \/ Passed(r) THEN r
    ELSE R(Ret(error(entries, h, v)), r.st)

\* first(v) === "" || second(v) === "" ? "" : error(v), r being first(v)
AnyPair(r, entries, h, v, d) ==
    IF IsThrow(r.out) \/ Passed(r) THEN r
    ELSE AnyLast(Call(entries[2][2], h, v, r.st, d), entries, h, v)

\* a faulty loop body: a guard that passes does not end the loop
AnyStepConjunctive(r, entries, h, v, i, d) ==
    IF IsThrow(r.out) THEN r
    ELSE IF Passed(r) THEN AnyLoop(entries, h, v, i + 1, r.st, d)
    ELSE R(Ret(error(entries, h, v)), r.st)

\* the body of the loop of any's guard, r being guard(v)
AnyStep(r, entries, h, v, i, d) ==
    IF IsThrow(r.out) \/ Passed(r) THEN r
    ELSE AnyLoop(entries, h, v, i + 1, r.st, d)

\* the loop of the guard returned by any(sources), three sources or more
AnyLoop(entries, h, v, i, st, d) ==
    IF i > Len(entries) THEN R(Ret(error(entries, h, v)), st)
    ELSE AnyStep(Call(entries[i][2], h, v, st, d), entries, h, v, i, d)

\* the guards returned by any(sources)
AnyGuard(entries, h, v, st, d) ==
    IF Len(entries) = 0 THEN R(Ret("unexpected <" \o type(h, v) \o "> value"), st)
    ELSE IF Len(entries) = 1
    THEN AnyLast(Call(entries[1][2], h, v, st, d), entries, h, v)
    ELSE IF Len(entries) = 2
    THEN AnyPair(Call(entries[1][2], h, v, st, d), entries, h, v, d)
    ELSE AnyLoop(entries, h, v, 1, st, d)

(***************************************************************************)
(* The guards of cache.test.ts, which resolve their factories when called. *)
(***************************************************************************)
\* the body of the loop of aTree's guard, r being tree(e)
TreeStep(r, tree, h, v, i, d) ==
    IF Passed(r) THEN TreeLoop(tree, h, v, i + 1, r.st, d) ELSE r

\* for ( const e of v ) of the guard of aTree, over the elements i..
TreeLoop(tree, h, v, i, st, d) ==
    IF i > Len(Desc(h, v).vals) THEN R(Ret(""), st)
    ELSE TreeStep(Call(tree, h, Desc(h, v).vals[i], st, d), tree, h, v, i, d)

\* the guard of aTree on an array, tree being resolve(aTree)
TreeElements(tree, h, v, d) ==
    IF IsThrow(tree.out) THEN tree ELSE TreeLoop(tree.out, h, v, 1, tree.st, d)

\* the guard returned by aTree
aTreeGuard(h, v, st, d) ==
    IF TypeOf(v) = "number" THEN R(Ret(""), st)
    ELSE IF ~IsArray(h, v) THEN R(Ret("not number or array"), st)
    ELSE TreeElements(resolve(F0("aTree"), h, st), h, v, d)

\* "type" in v
HasKey(h, v, key) == KeyIndex(Desc(h, v), key) # 0

\* resolve(aPong)(v.next) and resolve(aPing)(v.next), other being the guard
NextLink(other, h, v, d) ==
    IF IsThrow(other.out) THEN other
    ELSE Call(other.out, h, Get(h, v, "next"), other.st, d)

\* the guard returned by aPing
aPingGuard(h, v, st, d) ==
    IF TypeOf(v) # "object" \/ v = Null THEN R(Ret("not object"), st)
    ELSE IF ~HasKey(h, v, "type") \/ Get(h, v, "type") # Str("ping")
    THEN R(Ret("not ping"), st)
    ELSE IF Get(h, v, "next") = Null THEN R(Ret(""), st)
    ELSE NextLink(resolve(F0("aPong"), h, st), h, v, d)

\* the guard returned by aPong
aPongGuard(h, v, st, d) ==
    IF TypeOf(v) # "object" \/ v = Null THEN R(Ret("not object"), st)
    ELSE IF ~HasKey(h, v, "type") \/ Get(h, v, "type") # Str("pong")
    THEN R(Ret("not pong"), st)
    ELSE IF Get(h, v, "next") = Null THEN R(Ret(""), st)
    ELSE NextLink(resolve(F0("aPing"), h, st), h, v, d)

(***************************************************************************)
(* The guard factories that take arguments (index.ts): each resolves its   *)
(* arguments when it is called and returns the guard term.                 *)
(***************************************************************************)
\* the guard term built from what resolve produced, unless resolve threw
Built(tag, g) == IF IsThrow(g.out) THEN g ELSE R(<<tag, g.out>>, g.st)

\* anArray(element)
anArray(element, h, st) == Built("array", resolve(element, h, st))

\* isConstant of schema
IsConstant(value) == value[1] \in {"null", "boolean", "number", "string"}

\* a faulty Object.entries: the entries in the order they were written
EntriesAsWritten(arg) == arg

\* Object.entries(arg): the entries of a literal in the order of its keys
Entries(arg) ==
    LET keys == ForInKeys([i \in 1..Len(arg) |-> arg[i][1]])
    IN [j \in 1..Len(keys) |->
           arg[CHOOSE i \in 1..Len(arg) : arg[i][1] = keys[j]]]

\* item followed by the items of rest, unless building rest threw
Cons(item, rest) ==
    IF IsThrow(rest.out) THEN rest
    ELSE R(<<"list", <<item>> \o rest.out[2]>>, rest.st)

\* the entry [key, guard] followed by the entries after it
SchemaEntry(g, entries, i, h) ==
    IF IsThrow(g.out) THEN g
    ELSE Cons(<<entries[i][1], g.out>>, SchemaEntries(entries, i + 1, h, g.st))

\* Object.entries(arg).map(...) of schema, over the entries i..
SchemaEntries(entries, i, h, st) ==
    IF i > Len(entries) THEN R(<<"list", <<>>>>, st)
    ELSE IF IsConstant(entries[i][2])
    THEN SchemaEntry(R(<<"constant", entries[i][2]>>, st), entries, i, h)
    ELSE SchemaEntry(resolve(entries[i][2], h, st), entries, i, h)

\* the schema guard term, extra being resolve(rest)
SchemaTerm(guards, extra) ==
    IF IsThrow(extra.out) THEN extra
    ELSE R(<<"schema", guards.out[2], extra.out>>, extra.st)

\* schema after its entries are resolved
SchemaExtra(guards, rest, h) ==
    IF IsThrow(guards.out) THEN guards
    ELSE IF rest # Undefined THEN SchemaTerm(guards, resolve(rest, h, guards.st))
    ELSE SchemaTerm(guards, R(Undefined, guards.st))

\* schema(arg, rest) of anObject
schema(arg, rest, h, st) ==
    SchemaExtra(SchemaEntries(Entries(arg), 1, h, st), rest, h)

\* the entry guard term, valueGuard being resolve(aValue)
EntryTerm(keyGuard, valueGuard) ==
    IF IsThrow(valueGuard.out) THEN valueGuard
    ELSE R(<<"entry", keyGuard.out, valueGuard.out>>, valueGuard.st)

\* entry after its key guard is resolved
EntryValue(keyGuard, aValue, h) ==
    IF IsThrow(keyGuard.out) THEN keyGuard
    ELSE EntryTerm(keyGuard, resolve(aValue, h, keyGuard.st))

\* entry(asKey, aValue) of anObject
entry(asKey, aValue, h, st) == EntryValue(resolve(asKey, h, st), aValue, h)

\* the guard of sources[i] followed by the guards after it
ResolveRest(g, sources, i, h) ==
    IF IsThrow(g.out) THEN g
    ELSE Cons(g.out, ResolveAll(sources, i + 1, h, g.st))

\* sources.map(source => resolve(source)), over the sources i..
ResolveAll(sources, i, h, st) ==
    IF i > Len(sources) THEN R(<<"list", <<>>>>, st)
    ELSE ResolveRest(resolve(sources[i], h, st), sources, i, h)

\* the entry [name, guard] followed by the entries after it
AnyEntry(g, entries, i, h) ==
    IF IsThrow(g.out) THEN g
    ELSE Cons(<<entries[i][1], g.out>>, AnyEntries(entries, i + 1, h, g.st))

\* Object.entries(sources).map(...) of any, over the entries i..
AnyEntries(entries, i, h, st) ==
    IF i > Len(entries) THEN R(<<"list", <<>>>>, st)
    ELSE AnyEntry(resolve(entries[i][2], h, st), entries, i, h)

\* any after its sources are resolved
AnyTerm(entries) ==
    IF IsThrow(entries.out) THEN entries
    ELSE R(<<"any", entries.out[2]>>, entries.st)

\* any(sources)
any(sources, h, st) == AnyTerm(AnyEntries(Entries(sources), 1, h, st))

\* all after its sources are resolved
AllTerm(guards) ==
    IF IsThrow(guards.out) THEN guards
    ELSE IF Len(guards.out[2]) = 0 THEN R(F0("allEmpty"), guards.st)
    ELSE R(<<"all", guards.out[2]>>, guards.st)

\* all(sources)
all(sources, h, st) == AllTerm(ResolveAll(sources, 1, h, st))

(***************************************************************************)
(* Invoking a function that declares no parameter, as materialize does.    *)
(***************************************************************************)
\* how many times materialize has invoked the function called name
Calls(l, name) == Cardinality({i \in 1..Len(l) : l[i] = name})

\* the serial number of the next invocation of name
Serial(l, name) ==
    IF Calls(l, name) < MaxCalls THEN Calls(l, name) + 1 ELSE MaxCalls

\* the invocation of name is recorded
Logged(st, name) ==
    IF Calls(st.log, name) < MaxCalls
    THEN [st EXCEPT !.log = Append(@, name)]
    ELSE st

\* the object schema of aNode, children being anArray(aNode)
NodeSchema(children, h) ==
    IF IsThrow(children.out) THEN children
    ELSE schema(<< <<"value", F0("aNumber")>>, <<"children", children.out>> >>,
                Undefined, h, children.st)

\* README.md: anObject({ value: aNumber, children: anArray(aNode) })
aNode(h, st) == NodeSchema(anArray(F0("aNode"), h, st), h)

\* the reference to the closure an invocation has built
Closure(name, n, g) ==
    IF IsThrow(g.out) THEN g ELSE R(Made(name, n, g.out), g.st)

\* README.md: anObject({ type: "circle", radius: aNumber }), the
\* coordinates of the circle left out
aCircle(h, st) ==
    schema(<< <<"type", Str("circle")>>, <<"radius", F0("aNumber")>> >>,
           Undefined, h, st)

\* the object schema of aComposite, shapes being anArray(aShape)
CompositeSchema(shapes, h) ==
    IF IsThrow(shapes.out) THEN shapes
    ELSE schema(<< <<"type", Str("composite")>>, <<"shapes", shapes.out>> >>,
                Undefined, h, shapes.st)

\* README.md: anObject({ type: "composite", shapes: anArray(aShape) })
aComposite(h, st) == CompositeSchema(anArray(F0("aShape"), h, st), h)

\* README.md: any({ aCircle, aComposite }), the rectangles left out
aShape(h, st) ==
    any(<< <<"aCircle", F0("aCircle")>>, <<"aComposite", F0("aComposite")>> >>, h, st)

\* the guard aProbe returns, early being what its deferred guard told it
ProbeBuilt(name, n, early) ==
    IF IsThrow(early.out) THEN early
    ELSE R(Made(name, n, <<"user", "probe", early.out>>), early.st)

\* function aProbe() {
\*     const early = resolve(aProbe)("bad");
\*     return (v) => typeof v === "number" ? "" : "not number";
\* }
\* self being resolve(aProbe): the deferred guard is called while aProbe
\* is under construction
aProbe(self, name, n, h) ==
    IF IsThrow(self.out) THEN self
    ELSE ProbeBuilt(name, n, Call(self.out, h, Str("bad"), self.st, {}))

\* the n-th invocation of the function called name
InvokeNamed(name, n, h, st) ==
    CASE name \in PrimFactories ->
             R(Made(name, n, <<"prim", PrimType(name)>>), st)
      [] name = "anUnknown" -> R(Made(name, n, F0("unknown")), st)
      [] name \in {"unknown", "allEmpty"} -> R(Str(""), st)
      [] name = "aTree" -> R(Made(name, n, <<"user", "tree">>), st)
      [] name = "aPing" -> R(Made(name, n, <<"user", "ping">>), st)
      [] name = "aPong" -> R(Made(name, n, <<"user", "pong">>), st)
      [] name = "aNode" -> Closure(name, n, aNode(h, st))
      [] name = "aShape" -> Closure(name, n, aShape(h, st))
      [] name = "aCircle" -> Closure(name, n, aCircle(h, st))
      [] name = "aComposite" -> Closure(name, n, aComposite(h, st))
      [] name = "aBroken" -> R(Throw("Error", "broken factory"), st)
      [] name = "aProbe" -> aProbe(resolve(F0(name), h, st), name, n, h)

\* factory() of materialize
Invoke(factory, h, st) ==
    InvokeNamed(Key(factory), Serial(st.log, Key(factory)), h,
                Logged(st, Key(factory)))

(***************************************************************************)
(* Calling a function with one argument.                                   *)
(***************************************************************************)
\* the body b of a function runs on v
Apply(b, h, v, st, d) ==
    CASE b[1] = "fn0" ->
             IF b[2] \in {"unknown", "allEmpty"} THEN R(Ret(""), st)
             ELSE R(Ret("[function]"), st)
      [] b[1] = "thunk" -> ThunkGuard(b[2], h, v, st, d)
      [] b[1] = "prim" -> R(Ret(PrimGuard(b[2], h, v)), st)
      [] b[1] = "object" -> R(Ret(ObjectGuard(h, v)), st)
      [] b[1] = "array" -> ArrayGuard(b[2], h, v, st, d)
      [] b[1] = "entry" -> EntryGuard(b[2], b[3], h, v, st, d)
      [] b[1] = "constant" -> R(ConstantGuard(b[2], h, v), st)
      [] b[1] = "schema" -> SchemaGuard(b[2], b[3], h, v, st, d)
      [] b[1] = "all" -> AllGuard(b[2], h, v, st, d)
      [] b[1] = "any" -> AnyGuard(b[2], h, v, st, d)
      [] b[1] = "user" /\ b[2] = "tree" -> aTreeGuard(h, v, st, d)
      [] b[1] = "user" /\ b[2] = "ping" -> aPingGuard(h, v, st, d)
      [] b[1] = "user" /\ b[2] = "pong" -> aPongGuard(h, v, st, d)
      [] b[1] = "user" /\ b[2] = "probe" ->
             R(Ret(IF TypeOf(v) = "number" THEN "" ELSE "not number"), st)

\* g(v); a call that is already running on the same object of the heap
\* recurses until the stack overflows
\* the trace of the running operation: the function g was entered with v
Called(st, g, v) == [st EXCEPT !.calls = Append(@, <<g, v>>)]

Call(g, h, v, st, d) ==
    IF ~IsFunction(g) THEN R(NotAFunction, st)
    ELSE IF <<g, v>> \in d THEN R(StackOverflow, st)
    ELSE Apply(Body(g), h, v, Called(st, g, v),
               IF v[1] = "ref" THEN d \cup {<<g, v>>} ELSE d)

(***************************************************************************)
(* The state machine: the application calls resolve, the guards it was     *)
(* handed, is(guarding) and as(guarding), one call at a time; each call    *)
(* runs to completion and leaves its observation in last.                  *)
(***************************************************************************)
\* calls is the trace of the functions the operation enters, in order
St == [cache |-> cache, log |-> log, rets |-> rets, open |-> {}, calls |-> <<>>]

\* op(src)(arg) produced out; res is what the guard returned to as
Obs(op, src, arg, out, res) ==
    [op |-> op, src |-> src, arg |-> arg, out |-> out, res |-> res]

Id(i) == "o" \o ToString(i)

ObjIds == {Id(i) : i \in 1..MaxObjects}

\* an object: its kind, its own enumerable string keys and their values,
\* Object.isExtensible, Object.isFrozen, and the value of its Guarded property
Object(kind, keys, vals) ==
    [kind |-> kind, keys |-> keys, vals |-> vals,
     ext |-> TRUE, frozen |-> FALSE, brand |-> Undefined]

Free == Object("free", <<>>, <<>>)

\* an array that holds itself: the one value with a reference cycle
CyclicHeap ==
    [o \in ObjIds |->
        IF o = "o1" THEN Object("array", <<"0">>, <<Ref("o1")>>) ELSE Free]

\* nothing resolved yet; the value the guards will be handed is one of values
InitResolver(values) ==
    /\ cache = [k \in Names |-> Undefined]
    /\ log = <<>>
    /\ rets = {}
    /\ \E v \in values : last = Obs("init", Undefined, v, Undefined, Undefined)

\* the call op of src has completed with r
Completed(op, src, r) ==
    /\ cache' = r.st.cache
    /\ log' = r.st.log
    /\ rets' = r.st.rets
    /\ last' = Obs(op, src, last.arg, r.out, Undefined)
    /\ UNCHANGED heap

\* resolve(source), called by the application
DoResolve(source) == Completed("resolve", source, resolve(source, heap, St))

\* guard(v), called by the application on the guard resolve(F0(key)) returned
DoGuard(key) ==
    /\ cache[key] # Undefined
    /\ Completed("guard", cache[key], Call(cache[key], heap, last.arg, St, {}))

(***************************************************************************)
(* Nested arrays of numbers and strings, by number of nodes.               *)
(***************************************************************************)
Leaves == {Num("1"), Str("bad")}

Forests[n \in 0..MaxNodes] ==
    IF n = 0 THEN {<<>>}
    ELSE UNION {
            {<<t>> \o f :
                t \in (IF k = 1 THEN Leaves ELSE {}) \cup {Arr(g) : g \in Forests[k - 1]},
                f \in Forests[n - k]}
            : k \in 1..n}

Trees == UNION {{f[1] : f \in {g \in Forests[n] : Len(g) = 1}} : n \in 1..MaxNodes}

\* { value, children } records nested through children, by number of records
NodeForests[n \in 0..MaxNodes] ==
    IF n = 0 THEN {<<>>}
    ELSE UNION {
            {<<Rec(<<"value", "children">>, <<x, Arr(g)>>)>> \o f :
                x \in Leaves, g \in NodeForests[k - 1], f \in NodeForests[n - k]}
            : k \in 1..n}

Nodes == UNION {{f[1] : f \in {g \in NodeForests[n] : Len(g) = 1}} : n \in 1..MaxNodes}

\* v is a number or an array of such values
RECURSIVE IsTree(_)
IsTree(v) ==
    \/ v[1] = "number"
    \/ /\ v[1] = "obj"
       /\ v[2].kind = "array"
       /\ \A i \in 1..Len(v[2].vals) : IsTree(v[2].vals[i])

\* v is a record { value: number, children: array of such records }
RECURSIVE IsNode(_)
IsNode(v) ==
    /\ v[1] = "obj"
    /\ v[2].kind = "record"
    /\ v[2].keys = <<"value", "children">>
    /\ v[2].vals[1][1] = "number"
    /\ v[2].vals[2][1] = "obj"
    /\ v[2].vals[2][2].kind = "array"
    /\ \A i \in 1..Len(v[2].vals[2][2].vals) : IsNode(v[2].vals[2][2].vals[i])

\* the nesting depth of v: 0 for a value that holds nothing
RECURSIVE Depth(_)
Depth(v) ==
    IF v[1] # "obj" THEN 0
    ELSE LET ds == {Depth(v[2].vals[i]) : i \in 1..Len(v[2].vals)}
         IN 1 + (IF ds = {} THEN 0 ELSE CHOOSE m \in ds : \A x \in ds : x <= m)

InitTree == InitResolver(Trees \cup Nodes \cup {Ref("o1")}) /\ heap = CyclicHeap

NextTree ==
    \/ \E name \in {"aTree", "aNode"} : DoResolve(F0(name))
    \/ \E name \in {"aTree", "aNode"} : DoGuard(name)

SpecTree == InitTree /\ [][NextTree]_vars

\* C1: the guards that resolve returns for the self-referencing factories
\* aTree (which resolves itself when its guard is called) and aNode (which
\* resolves itself while its guard is built) accept ("") every nested value
\* of their type, at every depth, reject with a non-empty diagnostic every
\* one in which some leaf is not a number, and return (no stack overflow) on
\* each of these finite acyclic values.
C1_TreeVerdicts ==
    (last.op = "guard" /\ last.arg[1] # "ref") =>
        /\ last.src = cache[last.src[2]]
        /\ last.out[1] = "ret"
        /\ last.src[2] = "aTree" => (IsTree(last.arg) <=> last.out[2] = "")
        /\ last.src[2] = "aNode" => (IsNode(last.arg) <=> last.out[2] = "")

C1_Witness ==
    /\ last.op = "guard"
    /\ last.src[2] = "aNode"
    /\ last.arg \in Nodes
    /\ Depth(last.arg) = 4
    /\ last.out = Ret("")

(***************************************************************************)
(* Chains of { type, next } records, by number of links.                   *)
(***************************************************************************)
Link(t, next) == Rec(<<"type", "next">>, <<Str(t), next>>)

Chains[n \in 1..MaxChain] ==
    {Link(t, next) : t \in {"ping", "pong"},
                     next \in IF n = 1 THEN {Null} ELSE Chains[n - 1]}

ChainValues == UNION {Chains[n] : n \in 1..MaxChain} \cup {Null, Num("1")}

\* what a chain that starts with a link of type t must look like
RECURSIVE ChainDiagnostic(_, _)
ChainDiagnostic(t, v) ==
    IF v[1] # "obj" THEN "not object"
    ELSE IF v[2].vals[1] # Str(t) THEN "not " \o t
    ELSE IF v[2].vals[2] = Null THEN ""
    ELSE ChainDiagnostic(IF t = "ping" THEN "pong" ELSE "ping", v[2].vals[2])

InitPing == InitResolver(ChainValues) /\ heap = CyclicHeap

NextPing ==
    \/ \E name \in {"aPing", "aPong"} : DoResolve(F0(name))
    \/ \E name \in {"aPing", "aPong"} : DoGuard(name)

SpecPing == InitPing /\ [][NextPing]_vars

\* C2: whichever of aPing and aPong is resolved first, the guards resolve
\* returns for them give the same verdict on every value: a chain whose
\* links alternate from the guard's own type is accepted, and the first link
\* of the wrong type is reported as "not ping" or "not pong".
C2_MutualVerdicts ==
    /\ \A name \in {"aPing", "aPong"} :
          cache[name] \in {Undefined,
                           Made(name, 1, <<"user", IF name = "aPing" THEN "ping" ELSE "pong">>)}
    /\ (last.op = "guard") =>
          last.out = Ret(ChainDiagnostic(Body(last.src)[2], last.arg))

\* aPong was resolved before aPing, and the guard of aPing then accepted a
\* ping whose next is a pong whose next is a ping
C2_Witness ==
    /\ log = <<"aPong", "aPing">>
    /\ last.op = "guard"
    /\ last.src = cache["aPing"]
    /\ last.arg = Link("ping", Link("pong", Link("ping", Null)))
    /\ last.out = Ret("")

(***************************************************************************)
(* The resolver under every sequence of resolve and guard calls.           *)
(***************************************************************************)
CacheNames == {"aTree", "aNode", "aNumber", "aBroken", "unknown"}

CacheSources ==
    {F0(name) : name \in CacheNames} \cup {Undefined, <<"prim", "string">>}

CacheValues ==
    {Num("1"), Str("bad"), Arr(<<Num("1"), Str("bad")>>),
     Rec(<<"value", "children">>, <<Num("1"), Arr(<<>>)>>), Ref("o1")}

InitCache == InitResolver(CacheValues) /\ heap = CyclicHeap

NextCache ==
    \/ \E source \in CacheSources : DoResolve(source)
    \/ \E name \in CacheNames : DoGuard(name)

SpecCache == InitCache /\ [][NextCache]_vars

\* the references materialize has returned for key, nested or not
ReturnedFor(key, nested) ==
    {r[2] : r \in {x \in rets : x[1] = key /\ x[3] = nested}}

\* C3 as stated: any two calls resolve(F) return the identical reference,
\* and the body of F is executed exactly once.
C3_AnyTwoCallsIdentical ==
    \A key \in Names :
        /\ Cardinality(ReturnedFor(key, TRUE) \cup ReturnedFor(key, FALSE)) <= 1
        /\ Calls(log, key) = IF cache[key] = Undefined THEN 0 ELSE 1

\* C3, amended: any two calls resolve(F) made while F is not being invoked
\* return the identical reference, a call made while F is being invoked
\* returns the deferred guard of F, and the body of F is executed exactly
\* once from the first resolve(F) on.
C3_SettledCallsIdentical ==
    \A key \in Names :
        /\ Cardinality(ReturnedFor(key, FALSE)) <= 1
        /\ ReturnedFor(key, TRUE) \subseteq {Thunk(key)}
        /\ Calls(log, key) = IF cache[key] = Undefined THEN 0 ELSE 1

\* resolve(aNode) was called twice: the calls made by the application both
\* returned the guard of the single invocation, the call made by aNode
\* itself returned the deferred guard
C3_Witness ==
    /\ last.op = "resolve"
    /\ last.src = F0("aNode")
    /\ last.out = cache["aNode"]
    /\ ReturnedFor("aNode", FALSE) = {last.out}
    /\ ReturnedFor("aNode", TRUE) = {Thunk("aNode")}
    /\ Calls(log, "aNode") = 1
    /\ Len(log) > 2

(***************************************************************************)
(* The assertions is and as (index.ts) on the objects of the heap.         *)
(***************************************************************************)
\* a value returned by is or as
Val(v) == <<"val", v>>

\* as returned without calling the guard
Skipped == <<"skipped", "">>

\* as needs a new object and the heap holds MaxObjects already
Full == <<"full", "">>

\* what as(guarding)(v) produced: out, what its guard returned, the
\* resolver and the heap it leaves behind
A(out, res, st, h) == [out |-> out, res |-> res, st |-> st, h |-> h]

\* v !== null && typeof v === "object"
IsObjectRef(v) == v[1] = "ref"

\* v[Guarded]
GuardedBy(h, v) == h[v[2]].brand

IsFree(h, o) == h[o].kind = "free"

\* where the next object literal {} is allocated
Fresh(h) ==
    IF \A o \in ObjIds : ~IsFree(h, o) THEN "none"
    ELSE Id(CHOOSE i \in 1..MaxObjects :
                /\ IsFree(h, Id(i))
                /\ \A j \in 1..(i - 1) : ~IsFree(h, Id(j)))

\* extensible(o): a plain object {} given the own properties of o, its
\* Guarded property left out
extensible(h, o) ==
    [h EXCEPT ![Fresh(h)] = Object("record", h[o].keys, h[o].vals)]

\* a faulty marking: the object is frozen but no brand is attached
FrozenOnly(h, o, guarding) ==
    [h EXCEPT ![o].ext = FALSE, ![o].frozen = TRUE]

\* Object.freeze(Object.defineProperty(o, Guarded, { value: guarding }))
Frozen(h, o, guarding) ==
    [h EXCEPT ![o].brand = guarding,
              ![o].ext = FALSE, ![o].frozen = TRUE]

\* a faulty brand: the object is marked in place whether extensible or not
brandInPlace(h, o, guarding) ==
    [ref |-> Ref(o), h |-> Frozen(h, o, guarding)]

\* a faulty brand: an object that carries a mark already is marked again
\* in place
brandOverwriting(h, o, guarding) ==
    IF h[o].ext \/ h[o].brand # Undefined
    THEN [ref |-> Ref(o), h |-> Frozen(h, o, guarding)]
    ELSE [ref |-> Ref(Fresh(h)), h |-> Frozen(extensible(h, o), Fresh(h), guarding)]

\* brand(o) of as: the object returned and the heap
brand(h, o, guarding) ==
    IF h[o].ext
    THEN [ref |-> Ref(o), h |-> Frozen(h, o, guarding)]
    ELSE [ref |-> Ref(Fresh(h)), h |-> Frozen(extensible(h, o), Fresh(h), guarding)]

\* as returns what brand produced
Branded(b, r) == A(Val(b.ref), r.out, r.st, b.h)

\* a faulty end of as: the diagnostic is returned instead of thrown
asReturning(r, guarding, v, h) ==
    IF IsThrow(r.out) THEN A(r.out, r.out, r.st, h)
    ELSE IF r.out[2] # "" THEN A(Val(Str(r.out[2])), r.out, r.st, h)
    ELSE IF ~IsObjectRef(v) THEN A(Val(v), r.out, r.st, h)
    ELSE IF ~h[v[2]].ext /\ Fresh(h) = "none" THEN A(Full, r.out, r.st, h)
    ELSE Branded(brand(h, v[2], guarding), r)

\* a faulty end of as: the value is marked before the diagnostic is read
asResultMarkingFirst(r, guarding, v, h) ==
    IF IsThrow(r.out) THEN A(r.out, r.out, r.st, h)
    ELSE IF r.out[2] # ""
    THEN A(Throw("TypeError", r.out[2]), r.out, r.st,
           IF IsObjectRef(v) /\ h[v[2]].ext THEN Frozen(h, v[2], guarding) ELSE h)
    ELSE IF ~IsObjectRef(v) THEN A(Val(v), r.out, r.st, h)
    ELSE IF ~h[v[2]].ext /\ Fresh(h) = "none" THEN A(Full, r.out, r.st, h)
    ELSE Branded(brand(h, v[2], guarding), r)

\* as after its guard was called, r being guard(v)
asResult(r, guarding, v, h) ==
    IF IsThrow(r.out) THEN A(r.out, r.out, r.st, h)
    ELSE IF r.out[2] # "" THEN A(Throw("TypeError", r.out[2]), r.out, r.st, h)
    ELSE IF ~IsObjectRef(v) THEN A(Val(v), r.out, r.st, h)
    ELSE IF ~h[v[2]].ext /\ Fresh(h) = "none" THEN A(Full, r.out, r.st, h)
    ELSE Branded(brand(h, v[2], guarding), r)

\* a faulty as: a value that is not an object is returned unchecked
asResolvedTrusting(g, guarding, v, h) ==
    IF IsThrow(g.out) THEN A(g.out, Skipped, g.st, h)
    ELSE IF ~IsObjectRef(v) \/ GuardedBy(h, v) = guarding
    THEN A(Val(v), Skipped, g.st, h)
    ELSE asResult(Call(g.out, h, v, g.st, {}), guarding, v, h)

\* as(guarding)(v), g being resolve(guarding)
asResolved(g, guarding, v, h) ==
    IF IsThrow(g.out) THEN A(g.out, Skipped, g.st, h)
    ELSE IF IsObjectRef(v) /\ GuardedBy(h, v) = guarding
    THEN A(Val(v), Skipped, g.st, h)
    ELSE asResult(Call(g.out, h, v, g.st, {}), guarding, v, h)

\* as(guarding)(v)
as(guarding, v, h, st) == asResolved(resolve(guarding, h, st), guarding, v, h)

\* guard(v) === ""
isResult(r) ==
    IF IsThrow(r.out) THEN r
    ELSE R(Val(IF r.out[2] = "" THEN True ELSE False), r.st)

\* is(guarding)(v), g being resolve(guarding)
isResolved(g, v, h) ==
    IF IsThrow(g.out) THEN g ELSE isResult(Call(g.out, h, v, g.st, {}))

\* a faulty is: an object that carries the mark of the guarding is
\* taken for valid without calling the guard
isTrustingBrand(guarding, v, h, st) ==
    IF IsObjectRef(v) /\ GuardedBy(h, v) = guarding THEN R(Val(True), st)
    ELSE isResolved(resolve(guarding, h, st), v, h)

\* is(guarding)(v)
is(guarding, v, h, st) == isResolved(resolve(guarding, h, st), v, h)

\* o[key] = val in non-strict code
Write(h, o, key, val) ==
    IF KeyIndex(h[o], key) # 0
    THEN IF h[o].frozen THEN h
         ELSE [h EXCEPT ![o].vals[KeyIndex(h[o], key)] = val]
    ELSE IF ~h[o].ext THEN h
    ELSE [h EXCEPT ![o].keys = Append(@, key), ![o].vals = Append(@, val)]

(***************************************************************************)
(* An application that holds a node { value: 1, children: [] }, whose      *)
(* array of children is an object of its own, and that asserts, seals,     *)
(* freezes and writes its objects in any order.                            *)
(***************************************************************************)
NodeHeap ==
    [o \in ObjIds |->
        IF o = "o1" THEN Object("record", <<"value", "children">>, <<Num("1"), Ref("o2")>>)
        ELSE IF o = "o2" THEN Object("array", <<>>, <<>>)
        ELSE Free]

\* the guardings handed to as: the factories aNode and anUnknown
Guardings == {F0("aNode"), F0("anUnknown")}

Allocated == {o \in ObjIds : ~IsFree(heap, o)}

Inputs == {Ref(o) : o \in Allocated} \cup {Str("bad"), Null}

\* what the application writes: a string in place of the number of a node,
\* a string or the first node as the first child
Writes ==
    {<<o, "value", Str("bad")>> : o \in {o \in Allocated : heap[o].kind = "record"}}
    \cup {<<o, "0", val>> : o \in {o \in Allocated : heap[o].kind = "array"},
                            val \in {Str("bad"), Ref("o1")}}

\* as(guarding)(v) has completed with r
AsCompleted(guarding, v, r) ==
    /\ r.out # Full
    /\ cache' = r.st.cache
    /\ log' = r.st.log
    /\ rets' = r.st.rets
    /\ heap' = r.h
    /\ last' = Obs("as", guarding, v, r.out, r.res)

\* as(guarding)(v), called by the application
DoAs(guarding, v) == AsCompleted(guarding, v, as(guarding, v, heap, St))

\* a call that is neither a guard nor an assertion has completed
Other(op) ==
    /\ last' = Obs(op, Undefined, Undefined, Undefined, Undefined)
    /\ UNCHANGED <<cache, log, rets>>

\* Object.seal(o): no property can be added to o
DoSeal(o) ==
    /\ heap' = [heap EXCEPT ![o].ext = FALSE]
    /\ Other("seal")

\* Object.freeze(o)
DoFreeze(o) ==
    /\ heap' = [heap EXCEPT ![o].ext = FALSE, ![o].frozen = TRUE]
    /\ Other("freeze")

\* o[key] = val, called by the application
DoWrite(o, key, val) ==
    /\ heap' = Write(heap, o, key, val)
    /\ Other("write")

\* is(guarding)(v) has completed with r: the observation keeps the trace
\* of the functions the predicate entered
IsCompleted(guarding, v, r) ==
    /\ cache' = r.st.cache
    /\ log' = r.st.log
    /\ rets' = r.st.rets
    /\ last' = Obs("is", guarding, v, r.out, <<"list", r.st.calls>>)
    /\ UNCHANGED heap

\* is(guarding)(v), called by the application on a value of the heap
DoIsOn(guarding, v) == IsCompleted(guarding, v, is(guarding, v, heap, St))

InitAs == InitResolver({Undefined}) /\ heap = NodeHeap

NextAs ==
    \/ \E guarding \in Guardings, v \in Inputs : DoAs(guarding, v)
    \/ \E v \in Inputs : DoIsOn(F0("aNode"), v)
    \/ \E o \in Allocated : DoSeal(o)
    \/ \E o \in Allocated : DoFreeze(o)
    \/ \E w \in Writes : DoWrite(w[1], w[2], w[3])

SpecAs == InitAs /\ [][NextAs]_vars

\* C4: when as(G) is handed a structural value that carries the brand of G,
\* as does the value first that as(G) has just returned, it returns that
\* same reference (second === first) without calling the guard, and
\* changes no object.
C4_SecondIsFirst ==
    [][(/\ last'.op = "as"
        /\ IsObjectRef(last'.arg)
        /\ \/ GuardedBy(heap, last'.arg) = last'.src
           \/ (last.op = "as" /\ last.src = last'.src /\ last.out = Val(last'.arg)))
       => (/\ last'.out = Val(last'.arg)
           /\ last'.res = Skipped
           /\ heap' = heap)]_vars

\* as(G) was handed the copy it had made of a non-extensible object and
\* returned it without calling the guard
C4_Witness ==
    /\ last.op = "as"
    /\ last.arg = Ref("o3")
    /\ last.res = Skipped
    /\ last.out = Val(last.arg)
    /\ heap["o3"].brand = last.src
    /\ heap["o1"].brand # last.src
    /\ heap["o2"].brand # last.src

\* C5 as stated: whenever as(G)(v) returns, it returns v itself; a
\* structural v is then that same object, branded by G and frozen, its
\* properties as they were, whether or not it was extensible before.
C5_ReturnsInputItself ==
    [][(last'.op = "as" /\ last'.out[1] = "val") =>
           /\ last'.out = Val(last'.arg)
           /\ IsObjectRef(last'.arg) =>
                  heap' = [heap EXCEPT ![last'.arg[2]].brand = last'.src,
                                       ![last'.arg[2]].ext = FALSE,
                                       ![last'.arg[2]].frozen = TRUE]]_vars

\* the heap after as(guarding) copied the object o to the free place c
CopiedTo(c, o, guarding) ==
    [heap EXCEPT ![c] = [kind |-> "record", keys |-> heap[o].keys,
                         vals |-> heap[o].vals, ext |-> FALSE,
                         frozen |-> TRUE, brand |-> guarding]]

\* C5, amended: whenever as(G)(v) returns, a primitive v and a v that
\* carries the brand of G are returned as they are, nothing being changed;
\* an extensible object v is returned as that same object, branded by G and
\* frozen, its properties as they were; an object v that is not extensible is
\* left as it was, and a new plain object with the same properties, branded
\* by G and frozen, is returned in its place.
C5_SameObjectIfExtensible ==
    [][(last'.op = "as" /\ last'.out[1] = "val") =>
           IF ~IsObjectRef(last'.arg) \/ GuardedBy(heap, last'.arg) = last'.src
           THEN last'.out = Val(last'.arg) /\ heap' = heap
           ELSE IF heap[last'.arg[2]].ext
           THEN /\ last'.out = Val(last'.arg)
                /\ heap' = [heap EXCEPT ![last'.arg[2]].brand = last'.src,
                                        ![last'.arg[2]].ext = FALSE,
                                        ![last'.arg[2]].frozen = TRUE]
           ELSE /\ last'.out[2][1] = "ref"
                /\ last'.out[2] # last'.arg
                /\ IsFree(heap, last'.out[2][2])
                /\ heap' = CopiedTo(last'.out[2][2], last'.arg[2], last'.src)]_vars

\* as(anUnknown) was handed the sealed or frozen array of children and
\* returned a new object, which is not an array
C5_Witness ==
    /\ last.op = "as"
    /\ last.arg = Ref("o2")
    /\ last.out = Val(Ref("o3"))
    /\ heap["o2"].kind = "array"
    /\ heap["o2"].brand = Undefined
    /\ heap["o3"].kind = "record"
    /\ heap["o3"].brand = last.src

\* the objects that the values vals refer to
Referred(vals) == {vals[i][2] : i \in {j \in 1..Len(vals) : vals[j][1] = "ref"}}

\* the objects reachable from the objects of set
RECURSIVE Reach(_, _)
Reach(h, set) ==
    IF UNION {Referred(h[o].vals) : o \in set} \subseteq set THEN set
    ELSE Reach(h, set \cup UNION {Referred(h[o].vals) : o \in set})

\* C6 as stated: once as has returned an object (it then carries a brand),
\* no step changes a property of that object or of any object reachable
\* from it.
C6_DeeplyImmutable ==
    [][\A o \in ObjIds :
           heap[o].brand # Undefined =>
               \A p \in Reach(heap, {o}) :
                   heap'[p].keys = heap[p].keys /\ heap'[p].vals = heap[p].vals]_vars

\* what calling the guard resolve(guarding) returned on v produces
Verdict(g, v) ==
    IF IsThrow(g.out) THEN g.out ELSE Call(g.out, heap, v, g.st, {}).out

\* what the resolved guard of guarding produces on v
Diagnosed(guarding, v) == Verdict(resolve(guarding, heap, St), v)

\* as throws a TypeError with the diagnostic d, and throws only then
ThrowsOnlyDiagnostic(d, out) ==
    IF d[1] = "ret" /\ d[2] # "" THEN out = Throw("TypeError", d[2])
    ELSE out[1] # "throw"

\* C7 as stated: as(G)(v) throws a TypeError whose message is the non-empty
\* diagnostic of the resolved guard on v, and throws in no other case.
C7_ThrowsExactlyOnDiagnostic ==
    [][last'.op = "as" =>
           ThrowsOnlyDiagnostic(Diagnosed(last'.src, last'.arg), last'.out)]_vars

\* as throws a TypeError with the diagnostic d, lets a failure of the
\* guard through, and returns otherwise
ThrowsWhatGuardReports(d, out) ==
    IF IsThrow(d) THEN out = d
    ELSE IF d[2] # "" THEN out = Throw("TypeError", d[2])
    ELSE out[1] = "val"

\* C7, amended: on a value that carries the brand of G, as(G) returns the
\* value and does not consult the guard; on any other value, it throws a
\* TypeError whose message is the non-empty diagnostic of the resolved
\* guard, throws what the call of the guard itself throws, and throws in
\* no other case.
C7_ThrowsWhatGuardReports ==
    [][last'.op = "as" =>
           IF IsObjectRef(last'.arg) /\ GuardedBy(heap, last'.arg) = last'.src
           THEN last'.out = Val(last'.arg)
           ELSE ThrowsWhatGuardReports(Diagnosed(last'.src, last'.arg), last'.out)]_vars

\* as(aNode) was handed the node after a string was written into its array
\* of children, and threw the diagnostic of the guard
C7_Witness ==
    /\ last.op = "as"
    /\ last.src = F0("aNode")
    /\ last.arg = Ref("o1")
    /\ last.res = Ret("children: [0]: illegal <string> value, expected <object>")
    /\ last.out = Throw("TypeError", last.res[2])

(***************************************************************************)
(* The guards of index.ts, built by the application and called on values   *)
(* of every type.                                                          *)
(***************************************************************************)
\* an object literal handed to anObject as its schema
Literal(entries) == <<"literal", entries>>

\* anObject(a, b) of index.ts
anObject(a, b, h, st) ==
    IF a = Undefined THEN R(<<"object">>, st)
    ELSE IF IsFunction(a) /\ b # Undefined THEN entry(a, b, h, st)
    ELSE schema(a[2], b, h, st)

\* the guard expressions of the application
GuardExprs ==
    {"aNull()", "aBoolean()", "aNumber()", "aString()", "aFunction()",
     "anUnknown()", "anArray()", "anArray(aNumber())", "anObject()",
     "anObject({ type: 'circle', r: aNumber() })",
     "anObject({ type: 'circle' }, anUnknown)",
     "anObject({ type: 'circle' }, aNumber())",
     "anObject({ b: aNumber(), 1: aNumber() })",
     "anObject(aString(), aNumber())", "anObject(aNumber(), aString())",
     "all([])", "all([aString()])", "all([anObject(), anUnknown])",
     "all([aString(), aString(), aNumber()])",
     "all([aString(), aNumber()])", "all([anArray(), aString(), aNumber()])",
     "any({})", "any({ aNumber: aNumber() })", "any({ constructor: aNumber() })",
     "any({ n: aNumber(), s: aString() })", "any({ b: aString(), 1: aNumber() })",
     "any({ aNull: aNull(), anArray: anArray(), String: aString() })"}

\* the factory name called by the application itself, not by materialize
Direct(name, h, st) == InvokeNamed(name, 0, h, st)

\* the guard such a call of a primitive factory returns
Prim(name) == Made(name, 0, <<"prim", PrimType(name)>>)

\* the guard expressions that hand a schema to anObject
SchemaExprs ==
    {"anObject({ type: 'circle', r: aNumber() })",
     "anObject({ type: 'circle' }, anUnknown)",
     "anObject({ type: 'circle' }, aNumber())",
     "anObject({ b: aNumber(), 1: aNumber() })"}

\* the entries of the schema of e, as the expression declares them
SchemaArg(e) ==
    CASE e = "anObject({ type: 'circle', r: aNumber() })" ->
             << <<"type", Str("circle")>>, <<"r", Prim("aNumber")>> >>
      [] e \in {"anObject({ type: 'circle' }, anUnknown)",
                "anObject({ type: 'circle' }, aNumber())"} ->
             << <<"type", Str("circle")>> >>
      [] e = "anObject({ b: aNumber(), 1: aNumber() })" ->
             << <<"b", Prim("aNumber")>>, <<"1", Prim("aNumber")>> >>

\* the guard expressions that hand a mapping to any
AnyExprs ==
    {"any({})", "any({ aNumber: aNumber() })", "any({ constructor: aNumber() })",
     "any({ n: aNumber(), s: aString() })", "any({ b: aString(), 1: aNumber() })",
     "any({ aNull: aNull(), anArray: anArray(), String: aString() })"}

\* the entries of the mapping of e, as the expression writes them
AnyArg(e) ==
    CASE e = "any({})" -> <<>>
      [] e = "any({ aNumber: aNumber() })" -> << <<"aNumber", Prim("aNumber")>> >>
      [] e = "any({ constructor: aNumber() })" ->
             << <<"constructor", Prim("aNumber")>> >>
      [] e = "any({ n: aNumber(), s: aString() })" ->
             << <<"n", Prim("aNumber")>>, <<"s", Prim("aString")>> >>
      [] e = "any({ b: aString(), 1: aNumber() })" ->
             << <<"b", Prim("aString")>>, <<"1", Prim("aNumber")>> >>
      [] e = "any({ aNull: aNull(), anArray: anArray(), String: aString() })" ->
             << <<"aNull", Prim("aNull")>>, <<"anArray", <<"array", Undefined>> >>,
                <<"String", Prim("aString")>> >>

\* the value of the guard expression e
Build(e, h, st) ==
    CASE e = "aNull()" -> Direct("aNull", h, st)
      [] e = "aBoolean()" -> Direct("aBoolean", h, st)
      [] e = "aNumber()" -> Direct("aNumber", h, st)
      [] e = "aString()" -> Direct("aString", h, st)
      [] e = "aFunction()" -> Direct("aFunction", h, st)
      [] e = "anUnknown()" -> Direct("anUnknown", h, st)
      [] e = "anArray()" -> anArray(Undefined, h, st)
      [] e = "anArray(aNumber())" -> anArray(Prim("aNumber"), h, st)
      [] e = "anObject()" -> anObject(Undefined, Undefined, h, st)
      [] e = "anObject({ type: 'circle', r: aNumber() })" ->
             anObject(Literal(SchemaArg(e)), Undefined, h, st)
      [] e = "anObject({ type: 'circle' }, anUnknown)" ->
             anObject(Literal(SchemaArg(e)), F0("anUnknown"), h, st)
      [] e = "anObject({ type: 'circle' }, aNumber())" ->
             anObject(Literal(SchemaArg(e)), Prim("aNumber"), h, st)
      [] e = "anObject({ b: aNumber(), 1: aNumber() })" ->
             anObject(Literal(SchemaArg(e)), Undefined, h, st)
      [] e = "anObject(aString(), aNumber())" ->
             anObject(Prim("aString"), Prim("aNumber"), h, st)
      [] e = "anObject(aNumber(), aString())" ->
             anObject(Prim("aNumber"), Prim("aString"), h, st)
      [] e = "all([])" -> all(<<>>, h, st)
      [] e = "all([aString()])" -> all(<<Prim("aString")>>, h, st)
      [] e = "all([anObject(), anUnknown])" ->
             all(<< <<"object">>, F0("anUnknown")>>, h, st)
      [] e = "all([aString(), aString(), aNumber()])" ->
             all(<<Prim("aString"), Prim("aString"), Prim("aNumber")>>, h, st)
      [] e \in AnyExprs -> any(AnyArg(e), h, st)
      [] e = "all([aString(), aNumber()])" ->
             all(<<Prim("aString"), Prim("aNumber")>>, h, st)
      [] e = "all([anArray(), aString(), aNumber()])" ->
             all(<< <<"array", Undefined>>, Prim("aString"), Prim("aNumber")>>, h, st)

\* values of every type; the last one is the array that holds itself
GuardValues ==
    {Null, Undefined, True, Num("1"), Str("circle"), Sym, Fn,
     Arr(<<>>), Arr(<<Num("1"), Sym>>),
     Arr(<<Num("1"), Num("2")>>), Arr(<<Num("1"), Str("x"), Sym>>),
     Rec(<<>>, <<>>),
     Rec(<<"type">>, <<Str("circle")>>),
     Rec(<<"type">>, <<Sym>>),
     Rec(<<"type">>, <<NullProto(<<>>, <<>>)>>),
     Rec(<<"type", "r">>, <<Str("circle"), Num("1")>>),
     Rec(<<"type", "x", "y">>, <<Str("circle"), Num("1"), Str("s")>>),
     Rec(<<"x", "type">>, <<Str("s"), Str("square")>>),
     Rec(<<"b", "1">>, <<Str("x"), Str("y")>>),
     NullProto(<<"type">>, <<Str("circle")>>),
     Instance(<<>>, <<>>),
     Ref("o1")}

\* the factory the application hands to is as it is
LazyGuardings == {F0("anUnknown")}

\* the guard expression e was evaluated to r
BuildCompleted(r) ==
    /\ cache' = r.st.cache
    /\ log' = r.st.log
    /\ rets' = r.st.rets
    /\ last' = Obs("build", r.out, last.arg, Undefined, Undefined)
    /\ UNCHANGED heap

\* the call op of src has completed with r; the observation keeps the
\* trace of the functions the call entered
Traced(op, src, r) ==
    /\ cache' = r.st.cache
    /\ log' = r.st.log
    /\ rets' = r.st.rets
    /\ last' = Obs(op, src, last.arg, r.out, <<"list", r.st.calls>>)
    /\ UNCHANGED heap

\* const guard = e, evaluated by the application
DoBuild(e) == BuildCompleted(Build(e, heap, St))

\* guard(v), called by the application on the guard it has built
DoCall ==
    /\ last.op # "init"
    /\ last.src \notin LazyGuardings
    /\ Traced("call", last.src, Call(last.src, heap, last.arg, St, {}))

\* is(guarding)(v), called by the application
DoIs(guarding) == Completed("is", guarding, is(guarding, last.arg, heap, St))

InitGuards == InitResolver(GuardValues) /\ heap = CyclicHeap

NextGuards ==
    \/ \E e \in GuardExprs : DoBuild(e)
    \/ DoCall
    \/ last.op # "init" /\ DoIs(last.src)
    \/ \E guarding \in LazyGuardings : DoIs(guarding)

SpecGuards == InitGuards /\ [][NextGuards]_vars

\* C8 as stated: is(G)(v) never throws, whatever the guarding and the value;
\* it returns true exactly when the diagnostic of the resolved guard for v
\* is the empty string, and false otherwise.
C8_IsNeverThrows ==
    last.op = "is" =>
        /\ last.out \in {Val(True), Val(False)}
        /\ last.out = Val(True) <=> Diagnosed(last.src, last.arg) = Ret("")

\* C9 as stated: a guard built by the factories of the library never
\* throws on a value without reference cycles; it returns a diagnostic.
C9_GuardsNeverThrow ==
    (last.op = "call" /\ last.arg[1] # "ref") => last.out[1] = "ret"

\* the type a primitive guard expects
Expected(name) ==
    CASE name = "aNull" -> "null"
      [] name = "aBoolean" -> "boolean"
      [] name = "aNumber" -> "number"
      [] name = "aString" -> "string"
      [] name = "aFunction" -> "function"

\* the label of the observed type of v
Observed(v) ==
    CASE v[1] = "obj" -> IF v[2].kind = "array" THEN "array" ELSE "object"
      [] v[1] = "ref" -> IF heap[v[2]].kind = "array" THEN "array" ELSE "object"
      [] OTHER -> v[1]

\* C10: the guards of aNull, aBoolean, aNumber, aString and aFunction return
\* "" for every value of their own type and, for every other value, exactly
\* "illegal <T> value, expected <E>", E being their type and T the observed
\* type, which tells null, undefined and array from the typeof tags; the
\* guard of anUnknown returns "" for every value.
C10_PrimitiveDiagnostics ==
    (last.op = "call" /\ last.src[1] = "made") =>
        IF last.src[2] = "anUnknown" THEN last.out = Ret("")
        ELSE IF last.arg[1] = Expected(last.src[2]) THEN last.out = Ret("")
        ELSE last.out = Ret("illegal <" \o Observed(last.arg) \o "> value, expected <"
                            \o Expected(last.src[2]) \o ">")

\* the guard of aString was called on null
C10_Witness ==
    /\ last.op = "call"
    /\ last.src = Made("aString", 0, <<"prim", "string">>)
    /\ last.arg = Null
    /\ last.out = Ret("illegal <null> value, expected <string>")

(***************************************************************************)
(* The guards of anArray.                                                  *)
(***************************************************************************)
\* what the element guard of the called array guard produces on element i
ElementVerdict(i) ==
    Call(last.src[2], heap, Desc(heap, last.arg).vals[i + 1], St, {}).out

\* the indexes of the elements the element guard rejects
Failing ==
    {i \in 0..(Len(Desc(heap, last.arg).vals) - 1) : ElementVerdict(i) # Ret("")}

Smallest(S) == CHOOSE i \in S : \A j \in S : i <= j

\* the trace of a call that checked the elements 0..(n - 1), in this order
CheckedUpTo(n) ==
    <<"list", << <<last.src, last.arg>> >>
              \o [j \in 1..n |-> <<last.src[2], Desc(heap, last.arg).vals[j]>>]>>

\* the call reported the element i and checked no element after it
ReportsElement(i) ==
    /\ last.out = Ret("[" \o ToString(i) \o "]: " \o ElementVerdict(i)[2])
    /\ last.res = CheckedUpTo(i + 1)

\* C11: the guard of anArray() accepts every array and rejects every other
\* value; the guard of anArray(E) checks the elements in ascending index
\* order from 0, returns "" when E accepts them all and otherwise exactly
\* "[i]: d", i being the smallest index E rejects and d the diagnostic of E
\* for that element; no element after i is checked.
C11_ArrayElementsInOrder ==
    (last.op = "call" /\ last.src[1] = "array") =>
        IF ~IsArray(heap, last.arg)
        THEN last.out = Ret("illegal <" \o Observed(last.arg)
                            \o "> value, expected <array>")
        ELSE IF last.src[2] = Undefined THEN last.out = Ret("")
        ELSE IF Failing = {}
        THEN /\ last.out = Ret("")
             /\ last.res = CheckedUpTo(Len(Desc(heap, last.arg).vals))
        ELSE ReportsElement(Smallest(Failing))

\* anArray(aNumber()) was called on [1, "x", Symbol()]: the string at 1 is
\* reported and the symbol at 2 was never handed to the element guard
C11_Witness ==
    /\ last.op = "call"
    /\ last.src = <<"array", Prim("aNumber")>>
    /\ last.arg = Arr(<<Num("1"), Str("x"), Sym>>)
    /\ last.out = Ret("[1]: illegal <string> value, expected <number>")
    /\ last.res = <<"list", << <<last.src, last.arg>>,
                               <<Prim("aNumber"), Num("1")>>,
                               <<Prim("aNumber"), Str("x")>> >> >>

(***************************************************************************)
(* The guards of anObject(schema) and anObject(schema, rest).              *)
(***************************************************************************)
\* what the guard of the declared entry i produces on the called value
DeclaredVerdict(i) ==
    Call(last.src[2][i][2], heap, Get(heap, last.arg, last.src[2][i][1]), St, {}).out

\* the declared entries whose guard does not accept the property
DeclaredFailing ==
    {i \in 1..Len(last.src[2]) : DeclaredVerdict(i) # Ret("")}

\* the calls of the guards of the declared entries 1..n, in this order
DeclaredUpTo(n) ==
    << <<last.src, last.arg>> >>
    \o [i \in 1..n |-> <<last.src[2][i][2], Get(heap, last.arg, last.src[2][i][1])>>]

\* the own keys of the called value the schema does not declare, as the
\* loop over the value enumerates them
Undeclared ==
    SelectSeq(ForInKeys(Desc(heap, last.arg).keys),
              LAMBDA k : \A i \in 1..Len(last.src[2]) : last.src[2][i][1] # k)

\* what the rest guard produces on the undeclared key j
RestVerdict(j) ==
    Call(last.src[3], heap, Get(heap, last.arg, Undeclared[j]), St, {}).out

RestFailing == {j \in 1..Len(Undeclared) : RestVerdict(j) # Ret("")}

\* the calls of the rest guard on the undeclared keys 1..n, in this order
RestUpTo(n) ==
    [j \in 1..n |-> <<last.src[3], Get(heap, last.arg, Undeclared[j])>>]

\* the open guard reported the undeclared key j after every declared entry
\* and the undeclared keys before j
ReportsRest(j) ==
    /\ last.out = Ret(Undeclared[j] \o ": " \o RestVerdict(j)[2])
    /\ last.res = <<"list", DeclaredUpTo(Len(last.src[2])) \o RestUpTo(j)>>

\* the result of the schema guard once every declared entry has passed
UndeclaredChecked ==
    IF last.src[3] = Undefined
    THEN /\ last.res = <<"list", DeclaredUpTo(Len(last.src[2]))>>
         /\ last.out = IF Len(Undeclared) = 0 THEN Ret("")
                       ELSE Ret(Undeclared[1] \o ": unexpected property")
    ELSE IF RestFailing = {}
    THEN /\ last.out = Ret("")
         /\ last.res = <<"list", DeclaredUpTo(Len(last.src[2]))
                                 \o RestUpTo(Len(Undeclared))>>
    ELSE ReportsRest(Smallest(RestFailing))

\* C12: the schema guard checks its declared properties before any key the
\* schema does not declare: when a declared entry fails, no undeclared key
\* has been looked at.  When they all pass, the closed guard rejects the
\* first own key outside the schema with "<key>: unexpected property"; the
\* open guard hands the value of each such key to the rest guard and
\* returns "<key>: <diagnostic>" for the first it rejects, "" when none.
C12_DeclaredBeforeUndeclared ==
    (last.op = "call" /\ last.src[1] = "schema" /\ IsObject(heap, last.arg)) =>
        IF DeclaredFailing # {}
        THEN /\ last.out # Ret("")
             /\ \E n \in 1..Len(last.src[2]) : last.res = <<"list", DeclaredUpTo(n)>>
        ELSE UndeclaredChecked

\* anObject({ type: "circle" }, aNumber()) on { type: "circle", x: 1, y: "s" }:
\* the declared entry, then x, then y, which the rest guard rejects
C12_Witness ==
    /\ last.op = "call"
    /\ last.src = <<"schema", << <<"type", <<"constant", Str("circle")>> >> >>,
                     Prim("aNumber")>>
    /\ last.arg = Rec(<<"type", "x", "y">>, <<Str("circle"), Num("1"), Str("s")>>)
    /\ last.out = Ret("y: illegal <string> value, expected <number>")
    /\ Len(last.res[2]) = 4

(***************************************************************************)
(* The order in which the schema guard checks its declared entries.        *)
(***************************************************************************)
\* the guard a schema entry stands for
DeclaredTerm(value) == IF IsConstant(value) THEN <<"constant", value>> ELSE value

\* the called guard was built from the schema of the expression e
Declares(e) ==
    {<<SchemaArg(e)[i][1], DeclaredTerm(SchemaArg(e)[i][2])>> :
        i \in 1..Len(SchemaArg(e))}
    = {last.src[2][i] : i \in 1..Len(last.src[2])}

\* what the guard of the schema entry produces on the called value
EntryVerdict(item) ==
    Call(DeclaredTerm(item[2]), heap, Get(heap, last.arg, item[1]), St, {}).out

\* the positions, among entries, of the entries the value fails
FailingOf(entries) ==
    {i \in 1..Len(entries) : EntryVerdict(entries[i]) # Ret("")}

\* the entries in the order JavaScript enumerates the keys of an object:
\* integer-like keys in ascending order, then the others as written
Enumerated(entries) ==
    [j \in 1..Len(entries) |->
        entries[CHOOSE i \in 1..Len(entries) :
                    entries[i][1]
                    = ForInKeys([k \in 1..Len(entries) |-> entries[k][1]])[j]]]

\* the call returned the diagnostic of the entry behind its key
ReportsEntry(item) ==
    last.out = Ret(item[1] \o ": " \o EntryVerdict(item)[2])

\* the same, or the call threw what the guard of the entry threw
ReportsEntryOrThrows(item) ==
    IF IsThrow(EntryVerdict(item)) THEN last.out = EntryVerdict(item)
    ELSE ReportsEntry(item)

\* C13 as stated: the schema guard validates the entries in the order the
\* schema argument declares them, whatever the key names are: the
\* diagnostic is "<key>: <diagnostic>" of the entry declared first among the
\* failing ones; a literal entry fails with "unexpected <actual> value,
\* expected <expected>" unless the property is strictly equal to it.
C13_DeclaredOrder ==
    (last.op = "call" /\ last.src[1] = "schema" /\ IsObject(heap, last.arg)) =>
        \A e \in SchemaExprs :
            (Declares(e) /\ FailingOf(SchemaArg(e)) # {}) =>
                ReportsEntry(SchemaArg(e)[Smallest(FailingOf(SchemaArg(e)))])

\* C13 amended: the entries are validated in the enumeration order of the
\* keys of the schema, in which integer-like keys come first in ascending
\* order and the other keys follow in declaration order; the result is
\* that of the first failing entry in this order, "<key>: <diagnostic>", or
\* the TypeError thrown while a literal entry formats a property that has
\* no string conversion.
C13_EnumerationOrder ==
    (last.op = "call" /\ last.src[1] = "schema" /\ IsObject(heap, last.arg)) =>
        \A e \in SchemaExprs :
            (Declares(e) /\ FailingOf(Enumerated(SchemaArg(e))) # {}) =>
                ReportsEntryOrThrows(
                    Enumerated(SchemaArg(e))[Smallest(FailingOf(Enumerated(SchemaArg(e))))])

\* anObject({ b: aNumber(), 1: aNumber() }) on { b: "x", 1: "y" }: both
\* entries fail and the one declared second is reported
C13_Witness ==
    /\ last.op = "call"
    /\ last.src[1] = "schema"
    /\ Declares("anObject({ b: aNumber(), 1: aNumber() })")
    /\ last.arg = Rec(<<"b", "1">>, <<Str("x"), Str("y")>>)
    /\ last.out = Ret("1: illegal <string> value, expected <number>")

(***************************************************************************)
(* The guard of anObject(key, value).                                      *)
(***************************************************************************)
\* what the key guard and the value guard produce on the key k of the value
KeyVerdict(k) == Call(last.src[2], heap, Str(k), St, {}).out

ValueVerdict(k) == Call(last.src[3], heap, Get(heap, last.arg, k), St, {}).out

\* the positions in keys of the keys that fail, by themselves or by value
FailingKeys(keys) ==
    {j \in 1..Len(keys) :
        KeyVerdict(keys[j]) # Ret("") \/ ValueVerdict(keys[j]) # Ret("")}

\* the calls that visit keys[1..n]: the key guard, then the value guard
Visits(keys, n) ==
    [i \in 1..(2 * n) |->
        IF i % 2 = 1 THEN <<last.src[2], Str(keys[(i + 1) \div 2])>>
        ELSE <<last.src[3], Get(heap, last.arg, keys[i \div 2])>>]

\* the call stopped at keys[j], on the key or else on its value
StopsAt(keys, j) ==
    IF KeyVerdict(keys[j]) # Ret("")
    THEN /\ last.out = Ret(keys[j] \o ": " \o KeyVerdict(keys[j])[2])
         /\ last.res = <<"list", << <<last.src, last.arg>> >>
                                 \o SubSeq(Visits(keys, j), 1, 2 * j - 1)>>
    ELSE /\ last.out = Ret(keys[j] \o ": " \o ValueVerdict(keys[j])[2])
         /\ last.res = <<"list", << <<last.src, last.arg>> >> \o Visits(keys, j)>>

\* the guard of anObject(key, value) visited the keys in the order of keys
VisitsInOrder(keys) ==
    IF FailingKeys(keys) = {}
    THEN /\ last.out = Ret("")
         /\ last.res = <<"list", << <<last.src, last.arg>> >>
                                 \o Visits(keys, Len(keys))>>
    ELSE StopsAt(keys, Smallest(FailingKeys(keys)))

\* the guard of anObject(key, value) rejects what is not a plain record
RejectsNonRecord ==
    last.out = Ret("illegal <" \o Observed(last.arg) \o "> value, expected <object>")

\* C14 as stated: the guard of anObject(K, V) rejects every value that is
\* not a plain record with "illegal <type> value, expected <object>"; on a
\* plain record it visits the own enumerable keys in the insertion order
\* of the record, the key guard on the key and then the value guard on its
\* value, and returns "<key>: <diagnostic>" for the first failure, where
\* it stops, or "" when every key and value passes.
C14_InsertionOrder ==
    (last.op = "call" /\ last.src[1] = "entry") =>
        IF ~IsObject(heap, last.arg) THEN RejectsNonRecord
        ELSE VisitsInOrder(Desc(heap, last.arg).keys)

\* C14 amended: the keys are visited in the enumeration order of the
\* record, integer-like keys first in ascending order, then the other keys
\* in insertion order.
C14_EnumerationOrder ==
    (last.op = "call" /\ last.src[1] = "entry") =>
        IF ~IsObject(heap, last.arg) THEN RejectsNonRecord
        ELSE VisitsInOrder(ForInKeys(Desc(heap, last.arg).keys))

\* anObject(aString(), aNumber()) on { b: "x", 1: "y" }: the key inserted
\* second is visited first and reported; b is never visited
C14_Witness ==
    /\ last.op = "call"
    /\ last.src = <<"entry", Prim("aString"), Prim("aNumber")>>
    /\ last.arg = Rec(<<"b", "1">>, <<Str("x"), Str("y")>>)
    /\ last.out = Ret("1: illegal <string> value, expected <number>")
    /\ last.res = <<"list", << <<last.src, last.arg>>,
                               <<Prim("aString"), Str("1")>>,
                               <<Prim("aNumber"), Str("y")>> >> >>

(***************************************************************************)
(* The guard of all(sources).                                              *)
(***************************************************************************)
\* the guards the called guard of all combines, in the order of the sources
Combined == IF last.src = F0("allEmpty") THEN <<>> ELSE last.src[2]

\* what the i-th combined guard produces on the called value
GuardVerdict(i) == Call(Combined[i], heap, last.arg, St, {}).out

FailingGuards == {i \in 1..Len(Combined) : GuardVerdict(i) # Ret("")}

\* the trace of a call that evaluated the guards 1..n, in this order
EvaluatedUpTo(n) ==
    <<"list", << <<last.src, last.arg>> >>
              \o [i \in 1..n |-> <<Combined[i], last.arg>>]>>

\* the call returned what the guard i reported and evaluated none after it
ReturnsGuard(i) ==
    /\ last.out = GuardVerdict(i)
    /\ last.res = EvaluatedUpTo(i)

\* C15: for sources of any length, the guard of all(sources) returns the
\* first non-empty diagnostic in the order of the sources and "" when every
\* guard passes, so that the guard of all([]) returns "" for every value;
\* the guards after the first failing one are not evaluated.
C15_AllFirstFailure ==
    (last.op = "call" /\ (last.src[1] = "all" \/ last.src = F0("allEmpty"))) =>
        IF FailingGuards = {}
        THEN /\ last.out = Ret("")
             /\ last.res = EvaluatedUpTo(Len(Combined))
        ELSE ReturnsGuard(Smallest(FailingGuards))

\* all([anArray(), aString(), aNumber()]) on []: the first guard passes,
\* the second reports and the third, which fails too, is not evaluated
C15_Witness ==
    /\ last.op = "call"
    /\ last.src = <<"all", << <<"array", Undefined>>, Prim("aString"),
                              Prim("aNumber")>> >>
    /\ last.arg = Arr(<<>>)
    /\ last.out = Ret("illegal <array> value, expected <string>")
    /\ last.res = <<"list", << <<last.src, last.arg>>,
                               << <<"array", Undefined>>, last.arg>>,
                               <<Prim("aString"), last.arg>> >> >>

(***************************************************************************)
(* The guard of any(sources).                                              *)
(***************************************************************************)
\* what the guard of the i-th entry of the called guard produces
BranchVerdict(i) == Call(last.src[2][i][2], heap, last.arg, St, {}).out

\* the entries whose guard accepts the called value
Passing == {i \in 1..Len(last.src[2]) : BranchVerdict(i) = Ret("")}

\* the trace of a call that evaluated the branches 1..n, in this order
BranchesUpTo(n) ==
    <<"list", << <<last.src, last.arg>> >>
              \o [i \in 1..n |-> <<last.src[2][i][2], last.arg>>]>>

\* the labels of the entries i.., each between angle brackets: one alone,
\* the last two joined by "or", the ones before them followed by a comma
RECURSIVE Listing(_, _)
Listing(entries, i) ==
    "<" \o label(entries[i][1]) \o ">"
    \o (IF i = Len(entries) THEN ""
        ELSE IF i = Len(entries) - 1 THEN " or " \o Listing(entries, i + 1)
        ELSE ", " \o Listing(entries, i + 1))

\* the diagnostic any synthesizes for the called value
Synthesized ==
    IF Len(last.src[2]) = 0
    THEN "unexpected <" \o Observed(last.arg) \o "> value"
    ELSE "unexpected <" \o Observed(last.arg) \o "> value, expected "
         \o Listing(last.src[2], 1)

\* C16: for a mapping of any size, the guard of any(sources) returns ""
\* exactly when the guard of at least one entry returns "" for the value,
\* and it stops at the first that does; otherwise it returns the single
\* diagnostic "unexpected <type> value, expected ..." that lists the label
\* of every key in the order of the mapping (one label alone, two joined
\* by "or", three or more by commas and a final "or") and holds none of
\* the diagnostics of the branches; without sources it fails for every
\* value with "unexpected <type> value" and no expected clause.
C16_AnyPassesOrSynthesizes ==
    (last.op = "call" /\ last.src[1] = "any") =>
        IF Passing # {}
        THEN /\ last.out = Ret("")
             /\ last.res = BranchesUpTo(Smallest(Passing))
        ELSE /\ last.out = Ret(Synthesized)
             /\ last.res = BranchesUpTo(Len(last.src[2]))
             /\ \A i \in 1..Len(last.src[2]) : last.out # BranchVerdict(i)

\* any({ aNull: aNull(), anArray: anArray(), String: aString() }) on true:
\* the three branches fail and the three labels are listed
C16_Witness ==
    /\ last.op = "call"
    /\ last.src[1] = "any"
    /\ Len(last.src[2]) = 3
    /\ last.arg = True
    /\ last.out = Ret("unexpected <boolean> value, expected <null>, <Array> or <string>")

(***************************************************************************)
(* The labels of the diagnostic of any.                                    *)
(***************************************************************************)
\* the text t occurs in the text s
Mentions(s, t) ==
    \E i \in 1..(Len(s) - Len(t) + 1) : SubSeq(s, i, i + Len(t) - 1) = t

\* the call is one of a guard of any that no branch accepted
NoBranchPassed ==
    /\ last.op = "call"
    /\ last.src[1] = "any"
    /\ Passing = {}
    /\ last.out[1] = "ret"

\* the entries of the called guard that were built by a primitive factory
PrimitiveBranches ==
    {i \in 1..Len(last.src[2]) : Body(last.src[2][i][2])[1] = "prim"}

\* C17 as stated: when no branch of any passes, the diagnostic names the
\* expected type of every branch built from a primitive guard factory,
\* whatever the key it is registered under: any({ n: aNumber, s: aString })
\* on true fails with a message that mentions both "number" and "string".
C17_NamesBranchTypes ==
    NoBranchPassed =>
        \A i \in PrimitiveBranches :
            Mentions(last.out[2], Body(last.src[2][i][2])[2])

\* the label the diagnostic shows for each key in use: the key without
\* its article, a capitalized primitive type name in lowercase, any other
\* name unchanged, and for a key that names a member of Object.prototype
\* the string conversion of that member
KeyLabel(key) ==
    CASE key = "aNumber" -> "number"
      [] key = "aNull" -> "null"
      [] key = "String" -> "string"
      [] key = "anArray" -> "Array"
      [] key \in {"n", "s", "b", "1"} -> key
      [] key = "constructor" -> "function Object() { [native code] }"

\* C17 amended: the diagnostic names every branch by the label of its key,
\* not by the type its guard expects: the type of a primitive branch is
\* named only when its key is the name of the factory or of the type.
C17_NamesKeyLabels ==
    NoBranchPassed =>
        /\ \A i \in 1..Len(last.src[2]) :
               Mentions(last.out[2], "<" \o KeyLabel(last.src[2][i][1]) \o ">")
        /\ \A i \in PrimitiveBranches :
               (KeyLabel(last.src[2][i][1]) # Body(last.src[2][i][2])[2]
                /\ Observed(last.arg) # Body(last.src[2][i][2])[2])
               => ~Mentions(last.out[2], Body(last.src[2][i][2])[2])

\* any({ n: aNumber(), s: aString() }) on true: the message names the keys
\* n and s and neither number nor string
C17_Witness ==
    /\ last.op = "call"
    /\ last.src = <<"any", << <<"n", Prim("aNumber")>>, <<"s", Prim("aString")>> >> >>
    /\ last.arg = True
    /\ last.out = Ret("unexpected <boolean> value, expected <n> or <s>")

(***************************************************************************)
(* as on values that are not objects.                                      *)
(***************************************************************************)
\* what as produces for a value that is no object: anUnknown accepts it,
\* aNode expects an object
PrimitiveOutcome(guarding, v) ==
    IF guarding = F0("anUnknown") THEN Val(v)
    ELSE Throw("TypeError",
               "illegal <" \o Observed(v) \o "> value, expected <object>")

\* C18: as(G) applied to a primitive value never attaches a branding mark
\* and never freezes anything; every call runs the guard again, and every
\* call with the same primitive has the same outcome, the value returned
\* or the same failure thrown, however many calls came before.
C18_PrimitivesRevalidated ==
    [][(last'.op = "as" /\ ~IsObjectRef(last'.arg)) =>
           /\ heap' = heap
           /\ last'.res # Skipped
           /\ last'.res = Diagnosed(last'.src, last'.arg)
           /\ last'.out = PrimitiveOutcome(last'.src, last'.arg)]_vars

\* as(anUnknown) has returned the string it was handed after its guard
\* accepted it, anUnknown being resolved already by an earlier call on an
\* object that now carries its mark
C18_Witness ==
    /\ last.op = "as"
    /\ last.src = F0("anUnknown")
    /\ last.arg = Str("bad")
    /\ last.res = Ret("")
    /\ last.out = Val(Str("bad"))
    /\ heap["o1"].brand = F0("anUnknown")

(***************************************************************************)
(* is leaves no trace on the value it checks.                              *)
(***************************************************************************)
\* what is returns for the diagnostic d of the guard
Answer(d) ==
    IF IsThrow(d) THEN d ELSE Val(IF d = Ret("") THEN True ELSE False)

\* the step is a call of is that left every object as it was, ran the
\* guard on the value and answered by what the guard reports now
ChecksAfresh ==
    /\ heap' = heap
    /\ Len(last'.res[2]) > 0
    /\ last'.res[2][1][2] = last'.arg
    /\ last'.out = Answer(Diagnosed(last'.src, last'.arg))

ConcreteGuards == {<<"prim", "string">>, F0("unknown")}

\* C20 as stated: resolve(undefined) returns undefined, and for every
\* concrete guard g, written by the user or returned by a factory of the
\* library, resolve(g) returns g itself and does not invoke it; only
\* factories are invoked.
C20_GuardsResolveToThemselves ==
    /\ (last.op = "resolve" /\ last.src = Undefined) => last.out = Undefined
    /\ (last.op = "resolve" /\ last.src \in ConcreteGuards) => last.out = last.src
    /\ \A g \in ConcreteGuards : \A i \in 1..Len(log) : log[i] # g[2]

(***************************************************************************)
(* The deferred guards of the resolver: factories that refer to            *)
(* themselves while they are built, that call their deferred guard, and    *)
(* that throw.                                                             *)
(***************************************************************************)
ThunkNames == {"aNode", "aProbe", "aBroken", "aShape", "aComposite"}

Circle == Rec(<<"type", "radius">>, <<Str("circle"), Num("1")>>)

Composite(shapes) == Rec(<<"type", "shapes">>, <<Str("composite"), Arr(shapes)>>)

ThunkValues ==
    {Num("1"), Str("bad"),
     Rec(<<"value", "children">>, <<Num("1"), Arr(<<>>)>>),
     Rec(<<"value", "children">>, <<Num("1"), Arr(<<Str("bad")>>)>>),
     Circle, Composite(<<Circle>>), Composite(<<Circle, Str("bad")>>)}

InitThunk == InitResolver(ThunkValues) /\ heap = CyclicHeap

\* thunk(v), called by the application on a deferred guard that resolve
\* has returned, to a factory under construction or after a failure
DoDeferred(key) ==
    /\ Thunk(key) \in ReturnedFor(key, TRUE) \cup ReturnedFor(key, FALSE)
    /\ Completed("deferred", Thunk(key), Call(Thunk(key), heap, last.arg, St, {}))

NextThunk ==
    \/ \E name \in ThunkNames : DoResolve(F0(name))
    \/ \E name \in ThunkNames : DoGuard(name)
    \/ \E name \in ThunkNames : DoDeferred(name)

SpecThunk == InitThunk /\ [][NextThunk]_vars

\* the entry of name is the guard its factory returned
Finished(name) == cache[name] # Undefined /\ cache[name] # Thunk(name)

\* what the deferred guard of name returns on v when it is called now
Deferred(name, v) == Call(Thunk(name), heap, v, St, {}).out

\* what the deferred guard of aProbe returned on "bad" while aProbe was
\* under construction
Early == cache["aProbe"][4][3]

\* the values the guards of aNode and aProbe are written to accept
Accepts(name, v) == IF name = "aNode" THEN IsNode(v) ELSE v[1] = "number"

\* the guard the factory of name returned answers by the value alone, at
\* every point
FinishedGuardsDeterministic ==
    \A name \in {"aNode", "aProbe"} :
        (last.op = "guard" /\ Finished(name) /\ last.src = cache[name]) =>
            /\ last.out[1] = "ret"
            /\ last.out = Ret("") <=> Accepts(name, last.arg)
            /\ last.out = Call(last.src, heap, last.arg, St, {}).out

C22_EntriesMoveForward ==
    [][\A k \in Names :
           /\ cache[k] # Undefined => cache'[k] = cache[k]
           /\ Calls(log', k) <= 1
           /\ cache'[k] = Undefined <=> Calls(log', k) = 0]_vars

\* aNode is finished, the entry of aBroken is its thunk, each was invoked
\* once, and a further resolve(aBroken) has just returned the thunk
C22_Witness ==
    /\ Finished("aNode")
    /\ cache["aBroken"] = Thunk("aBroken")
    /\ Calls(log, "aNode") = 1
    /\ Calls(log, "aBroken") = 1
    /\ last.op = "resolve"
    /\ last.src = F0("aBroken")
    /\ last.out = Thunk("aBroken")

\* C23: the deferred guard of F is in the cache before the body of F runs:
\* every resolve(F) made while F is under construction, by F itself or by
\* a factory F resolves, returns the deferred guard of F and does not
\* invoke F again; so every resolve returns, on factories that refer to
\* themselves and to one another.
C23_NestedResolveIsDeferred ==
    /\ \A key \in Names :
           /\ ReturnedFor(key, TRUE) \subseteq {Thunk(key)}
           /\ Calls(log, key) <= 1
    /\ last.op = "resolve" =>
           /\ last.out # StackOverflow
           /\ Key(last.src) # "aBroken" => last.out = cache[Key(last.src)]

\* resolve(aComposite) has returned: aComposite resolved aShape, which
\* resolved aComposite while it was under construction and got its
\* deferred guard; each factory ran once
C23_Witness ==
    /\ last.op = "resolve"
    /\ last.src = F0("aComposite")
    /\ Finished("aComposite")
    /\ Finished("aShape")
    /\ log = <<"aComposite", "aShape", "aCircle", "aNumber">>
    /\ ReturnedFor("aComposite", TRUE) = {Thunk("aComposite")}
    /\ ReturnedFor("aShape", TRUE) = {}

\* C24: once the construction of F has completed with the guard g, a
\* deferred guard handed out for F returns on every value what g returns
\* on it; as long as the cache entry of F is the deferred guard itself it
\* returns "" on every value, and does not call itself.
C24_DeferredDelegates ==
    /\ \A name \in ThunkNames :
           (last.op = "deferred" /\ last.src = Thunk(name)) =>
               IF Finished(name)
               THEN /\ last.out = Call(cache[name], heap, last.arg, St, {}).out
                    /\ name \in {"aNode", "aProbe"} =>
                           (last.out = Ret("") <=> Accepts(name, last.arg))
               ELSE last.out = Ret("")
    /\ Finished("aProbe") => Early = Ret("")

\* the deferred guard of aComposite, handed to aShape while aComposite was
\* built, has been called after the construction on a composite that
\* holds a string, and has answered as the guard of aComposite does
C24_Witness ==
    /\ last.op = "deferred"
    /\ last.src = Thunk("aComposite")
    /\ Thunk("aComposite") \in ReturnedFor("aComposite", TRUE)
    /\ Finished("aComposite")
    /\ last.arg = Composite(<<Circle, Str("bad")>>)
    /\ last.out # Ret("")
    /\ last.out[1] = "ret"
    /\ last.out = Call(cache["aComposite"], heap, last.arg, St, {}).out

\* C25: when F throws while it is constructed, the failure reaches the
\* caller of resolve(F) and the cache keeps the deferred entry of F; every
\* later resolve(F) returns that deferred guard without invoking F again,
\* and the deferred guard accepts every value.
C25_FailedFactoryStaysDeferred ==
    [][/\ (last'.op = "resolve" /\ last'.src = F0("aBroken")) =>
              IF cache["aBroken"] = Undefined
              THEN /\ last'.out = Throw("Error", "broken factory")
                   /\ cache' = [cache EXCEPT !["aBroken"] = Thunk("aBroken")]
                   /\ log' = Append(log, "aBroken")
              ELSE /\ last'.out = Thunk("aBroken")
                   /\ cache' = cache
                   /\ log' = log
       /\ (last'.op \in {"guard", "deferred"} /\ last'.src = Thunk("aBroken")) =>
              /\ last'.out = Ret("")
              /\ cache' = cache
              /\ log' = log]_vars

\* aBroken threw once; a later resolve returned its deferred guard, which
\* has accepted the string "bad"
C25_Witness ==
    /\ last.op = "deferred"
    /\ last.src = Thunk("aBroken")
    /\ last.arg = Str("bad")
    /\ last.out = Ret("")
    /\ cache["aBroken"] = Thunk("aBroken")
    /\ Calls(log, "aBroken") = 1
    /\ ReturnedFor("aBroken", FALSE) = {Thunk("aBroken")}

\* C26: the mark of an object is never replaced: an object that carries
\* the mark of G is frozen and carries the mark of G ever after, and
\* as(G2) on it, G2 being another guarding, marks a copy and leaves the
\* mark of the object itself equal to G.
C26_MarkNeverReplaced ==
    [][\A o \in ObjIds :
           heap[o].brand # Undefined =>
               /\ heap[o].frozen
               /\ heap'[o].brand = heap[o].brand
               /\ (last'.op = "as" /\ last'.arg = Ref(o) /\ last'.out[1] = "val"
                   /\ last'.src # heap[o].brand) =>
                      /\ last'.out # Val(Ref(o))
                      /\ GuardedBy(heap', last'.out[2]) = last'.src]_vars

\* the node o1 carries the mark of aNode; as(anUnknown)(o1) has returned
\* another object, which carries the mark of anUnknown
C26_Witness ==
    /\ heap["o1"].brand = F0("aNode")
    /\ last.op = "as"
    /\ last.src = F0("anUnknown")
    /\ last.arg = Ref("o1")
    /\ last.out[1] = "val"
    /\ last.out # Val(Ref("o1"))
    /\ GuardedBy(heap, last.out[2]) = F0("anUnknown")

(***************************************************************************)
(* An application that holds the node and its array of children, seals    *)
(* and freezes them, and asserts and tests them against aNode and         *)
(* anArray().                                                              *)
(***************************************************************************)
CopyGuardings == {F0("aNode"), <<"array", Undefined>>}

NextCopy ==
    \/ \E guarding \in CopyGuardings, v \in Inputs : DoAs(guarding, v)
    \/ \E guarding \in CopyGuardings, v \in Inputs : DoIsOn(guarding, v)
    \/ \E o \in Allocated : DoSeal(o)
    \/ \E o \in Allocated : DoFreeze(o)

SpecCopy == InitAs /\ [][NextCopy]_vars

\* C27 as stated: every value a successful as(G)(v) returns is accepted by
\* the resolved guard of G at that moment, is(G) of the result is true,
\* also when v was a record or an array that was not extensible, sealed
\* or frozen.
C27_ResultAccepted ==
    (last.op = "as" /\ last.out[1] = "val") =>
        is(last.src, last.out[2], heap, St).out = Val(True)

\* C28 as stated: whenever as(G)(v) returns v without running the guard,
\* v satisfies G at that moment, whatever was written to the records and
\* arrays nested in it since it was marked.
C28_FastPathSound ==
    (last.op = "as" /\ last.res = Skipped /\ last.out[1] = "val") =>
        is(last.src, last.out[2], heap, St).out = Val(True)

\* C29: when as(G)(v) throws, v and every other object are left as they
\* were, no mark is added and nothing is frozen; v does not carry the
\* mark of G, so that as(G)(v) called again runs the guard again and
\* throws the same, and is(G)(v) is false, or throws what the guard threw
\* when as failed on a value that contains itself.
C29_ThrowLeavesValue ==
    [][(last'.op = "as" /\ last'.out[1] = "throw") =>
           /\ heap' = heap
           /\ last'.res # Skipped
           /\ IsObjectRef(last'.arg) => GuardedBy(heap', last'.arg) # last'.src
           /\ as(last'.src, last'.arg, heap', St').res = last'.res
           /\ as(last'.src, last'.arg, heap', St').out = last'.out
           /\ is(last'.src, last'.arg, heap', St').out =
                  IF last'.out[2] = "TypeError" THEN Val(False) ELSE last'.out]_vars

\* as(aNode) has thrown on the node o1, whose value was overwritten with
\* a string: o1 is still extensible, not frozen and without a mark
C29_Witness ==
    /\ last.op = "as"
    /\ last.src = F0("aNode")
    /\ last.arg = Ref("o1")
    /\ last.out[1] = "throw"
    /\ last.out[2] = "TypeError"
    /\ heap["o1"].ext
    /\ ~heap["o1"].frozen
    /\ heap["o1"].brand = Undefined

====
